---- MODULE Spec2Model ----
(***************************************************************************)
(* Token lifecycle of the JWT authentication API: login, authenticate,     *)
(* logout, refresh and the cleanup sweeper, over the three tables users,   *)
(* refresh_tokens and token_blacklist.                                     *)
(*                                                                         *)
(* Time is counted in whole seconds (the resolution of the iat/exp claims);*)
(* the durations are scaled down so that expiry and day roll-over happen   *)
(* within the explored horizon.  Row ids (uuid) and createdAt columns are  *)
(* not read by any handler and are left out of the rows.                   *)
(***************************************************************************)
EXTENDS Integers, Sequences, FiniteSets, Bags, TLC

\* ------------------------------------------------------------------------
\* Bounds of the exploration
\* ------------------------------------------------------------------------
MaxTime == 4
MaxIssued == 4
MaxLedger == 2
MaxSkew == 1
MaxDelay == 2
MaxFailures == 1

\* ------------------------------------------------------------------------
\* Configuration (scaled durations, in seconds)
\* ------------------------------------------------------------------------
\* JWT_EXPIRE_TIME || '15m'
AccessTTL == 2
\* JWT_REFRESH_EXPIRE_TIME || '7d'
RefreshTTL == 3
\* length of one calendar day, the unit of the date part of a timestamp
SecondsPerDay == 2

AccessSecret == "JWT_SECRET_v1"
RefreshSecret == "JWT_REFRESH_SECRET_v1"
RotatedAccessSecret == "JWT_SECRET_v2"
RotatedRefreshSecret == "JWT_REFRESH_SECRET_v2"
AttackerSecret == "attacker_key"

\* ------------------------------------------------------------------------
\* Users table
\* ------------------------------------------------------------------------
UserIds == {"u1", "u2"}

EmailOf(id) ==
  IF id = "u1" THEN "a@b.com" ELSE IF id = "u2" THEN "c@d.com" ELSE "none"

PasswordOf(id) ==
  IF id = "u1" THEN "Secret1" ELSE IF id = "u2" THEN "Secret2" ELSE "none"

\* bcrypt.hash: a one-way image of the plaintext
BcryptHash(plain) == <<"bcrypt", plain>>

\* a row of the users table as the seed script creates it, at second 0
UserRow(id) ==
  [id |-> id, email |-> EmailOf(id), password |-> BcryptHash(PasswordOf(id)),
   firstName |-> "First", lastName |-> "Last", phoneNumber |-> "none",
   dateOfBirth |-> "none", profilePicture |-> "none",
   createdAt |-> [date |-> 0, sep |-> " ", time |-> 0],
   updatedAt |-> [date |-> 0, sep |-> " ", time |-> 0]]

\* the value of a lookup that found no row (undefined)
NoUser == [id |-> "none", email |-> "none", password |-> <<"none", "none">>,
           firstName |-> "none", lastName |-> "none", phoneNumber |-> "none",
           dateOfBirth |-> "none", profilePicture |-> "none",
           createdAt |-> [date |-> 0, sep |-> " ", time |-> 0],
           updatedAt |-> [date |-> 0, sep |-> " ", time |-> 0]]

SeedUsers == {UserRow(id) : id \in UserIds}

Emails == {EmailOf(id) : id \in UserIds} \cup {"x@y.com"}
Passwords == {PasswordOf(id) : id \in UserIds}

\* ------------------------------------------------------------------------
\* Tokens (utils/jwt): a signed token is its payload plus the key that
\* signed it; HS256 is deterministic, so equal payload and key give the
\* same token string.
\* ------------------------------------------------------------------------
NoToken == [key |-> "none", userId |-> "none", email |-> "none", iat |-> 0, exp |-> 0]
\* the empty string, as left by 'Bearer ' or an empty body field
EmptyToken == [key |-> "empty", userId |-> "none", email |-> "none", iat |-> 0, exp |-> 0]
\* a string that is not a JWT
MalformedToken == [key |-> "malformed", userId |-> "none", email |-> "none", iat |-> 0, exp |-> 0]

Sign(payload, secret, ttl, t) ==
  [key |-> secret, userId |-> payload.userId, email |-> payload.email,
   iat |-> t, exp |-> t + ttl]

\* a well-signed token of somebody else's making
ForgedToken == Sign([userId |-> "u1", email |-> EmailOf("u1")], AttackerSecret, MaxTime + RefreshTTL + 1, 0)

IsJwt(token) == token.key \notin {"none", "empty", "malformed"}

\* jwt.verify: structure, then signature, then expiry (clock >= exp)
JwtVerify(token, secret, t) ==
  IF ~IsJwt(token) THEN [err |-> "JsonWebTokenError", payload |-> NoToken]
  ELSE IF token.key # secret THEN [err |-> "JsonWebTokenError", payload |-> NoToken]
  ELSE IF t >= token.exp THEN [err |-> "TokenExpiredError", payload |-> NoToken]
  ELSE [err |-> "none", payload |-> token]

\* tokens by the secret that signed them
IsAccessToken(token) == token.key \in {AccessSecret, RotatedAccessSecret}

IsRefreshToken(token) == token.key \in {RefreshSecret, RotatedRefreshSecret}

\* jwt.decode: the payload without any check, null for a non-JWT
decodeToken(token) == IF IsJwt(token) THEN token ELSE NoToken

\* ------------------------------------------------------------------------
\* Timestamps as stored and compared by SQLite (text columns)
\* ------------------------------------------------------------------------
\* Date.prototype.toISOString: 'YYYY-MM-DDTHH:MM:SS.000Z'
ToISOString(t) == [date |-> t \div SecondsPerDay, sep |-> "T", time |-> t % SecondsPerDay]
\* datetime("now"): 'YYYY-MM-DD HH:MM:SS'
DatetimeNow(t) == [date |-> t \div SecondsPerDay, sep |-> " ", time |-> t % SecondsPerDay]

CharCode(c) == IF c = " " THEN 32 ELSE 84

\* the text comparison a < b of two timestamps
TextLess(a, b) ==
  \/ a.date < b.date
  \/ /\ a.date = b.date
     /\ \/ CharCode(a.sep) < CharCode(b.sep)
        \/ CharCode(a.sep) = CharCode(b.sep) /\ a.time < b.time

\* now:       the clock, in seconds
\* env:       the signing secrets in process.env
\* users, ledger, blacklist: the tables users, refresh_tokens, token_blacklist
\* issued:    the tokens that responses have handed to clients
\* revoked:   the tokens a successful logout was given: the access token
\*            that authenticated it, and the token of its body when that is
\*            a refresh token of the caller
\* last:      the request handled last and its response, until it is delivered
\* sweeper:   the server process and its cleanup timer: whether the process
\*            is up, whether the interval timer is set, when it fires next,
\*            how many cleanup runs there were and how many of them failed
\* procs:     the requests being handled concurrently, each with the store
\*            call it makes next and its local variables
\* base:      the tables as they were when these requests arrived, and the
\*            number of times the handling switched between them
VARIABLES now, env, users, ledger, blacklist, issued, revoked, last, sweeper,
          procs, base

vars == <<now, env, users, ledger, blacklist, issued, revoked, last, sweeper,
          procs, base>>

\* the state of the server process besides the tables
server == <<sweeper, procs, base>>

\* ------------------------------------------------------------------------
\* models/User
\* ------------------------------------------------------------------------
FindByEmail(email) ==
  IF \E u \in users : u.email = email
  THEN CHOOSE u \in users : u.email = email
  ELSE NoUser

FindById(id) ==
  IF \E u \in users : u.id = id
  THEN CHOOSE u \in users : u.id = id
  ELSE NoUser

\* bcrypt.compare
verifyPassword(plain, hashed) == hashed = BcryptHash(plain)

\* variant: the record as it is stored
formatUser_asStored(user) == user

\* the record without its password field
formatUser(user) == [c \in DOMAIN user \ {"password"} |-> user[c]]

NoReqUser == formatUser(NoUser)

AllowedFields == {"firstName", "lastName", "phoneNumber", "dateOfBirth", "profilePicture"}

\* variant: every key of the payload that names a column is written
update_anyColumn(id, updateData, t) ==
  LET fields == DOMAIN updateData
  IN
  IF fields = {} THEN users
  ELSE {IF u.id # id THEN u
        ELSE [c \in DOMAIN u |->
                IF c \in fields THEN updateData[c]
                ELSE IF c = "updatedAt" THEN [date |-> t \div SecondsPerDay, sep |-> " ",
                                              time |-> t % SecondsPerDay]
                ELSE u[c]]
        : u \in users}

\* the values undefined and null of a key of the payload
Undefined == "undefined"

Null == "null"

\* variant: the UPDATE statement is run also when it names no field
update_alwaysWrites(id, updateData, t) ==
  LET fields == {k \in DOMAIN updateData :
                   k \in AllowedFields /\ updateData[k] # Undefined}
  IN
  {IF u.id # id THEN u
   ELSE [c \in DOMAIN u |->
           IF c \in fields THEN updateData[c]
           ELSE IF c = "updatedAt" THEN [date |-> t \div SecondsPerDay, sep |-> " ",
                                         time |-> t % SecondsPerDay]
           ELSE u[c]]
   : u \in users}

\* the statements User.update runs: the UPDATE when the payload has an
\* allowed key with a defined value, and the SELECT of findById
updateStatements(id, updateData) ==
  LET fields == {k \in DOMAIN updateData :
                   k \in AllowedFields /\ updateData[k] # Undefined}
  IN IF fields = {} THEN <<"SELECT">> ELSE <<"UPDATE", "SELECT">>

\* User.update: the users table after UPDATE users SET <allowed keys of the
\* payload with a defined value>, updatedAt = CURRENT_TIMESTAMP WHERE id = ?
\* (a key of a JSON body is never undefined; a direct call can pass one)
update(id, updateData, t) ==
  LET fields == {k \in DOMAIN updateData :
                   k \in AllowedFields /\ updateData[k] # Undefined}
  IN
  IF fields = {} THEN users
  ELSE {IF u.id # id THEN u
        ELSE [c \in DOMAIN u |->
                IF c \in fields THEN updateData[c]
                ELSE IF c = "updatedAt" THEN [date |-> t \div SecondsPerDay, sep |-> " ",
                                              time |-> t % SecondsPerDay]
                ELSE u[c]]
        : u \in users}

\* ------------------------------------------------------------------------
\* models/Token, as functions of the table contents
\* ------------------------------------------------------------------------
\* A table is the bag of its rows: SQL keeps no order among rows, and two
\* inserts of the same values are two rows.
NoRow == [userId |-> "none", token |-> NoToken, expiresAt |-> ToISOString(0)]

Rows(T) == BagToSet(T)

RowCount(T) == BagCardinality(T)

Insert(T, row) == T (+) SetToBag({row})

\* DELETE FROM <table> WHERE <Keep does not hold>
Retain(T, Keep(_)) == [r \in {x \in Rows(T) : Keep(x)} |-> T[r]]

createRefreshToken(L, userId, token, expiresAt) ==
  Insert(L, [userId |-> userId, token |-> token, expiresAt |-> expiresAt])

\* SELECT * ... WHERE token = ?, first row of the result or undefined
findRefreshToken(L, token) ==
  IF \E r \in Rows(L) : r.token = token
  THEN CHOOSE r \in Rows(L) : r.token = token
  ELSE NoRow

\* a deletion that reaches the rows of other tokens of the same user
deleteRefreshToken_byUser(L, token) ==
  LET Keep(r) == r.userId # token.userId IN Retain(L, Keep)

\* DELETE FROM refresh_tokens WHERE token = ?
deleteRefreshToken(L, token) ==
  LET Keep(r) == r.token # token IN Retain(L, Keep)

\* DELETE FROM refresh_tokens WHERE userId = ?
deleteUserRefreshTokens(L, userId) ==
  LET Keep(r) == r.userId # userId IN Retain(L, Keep)

blacklistToken(B, token, expiresAt) ==
  Insert(B, [token |-> token, expiresAt |-> expiresAt])

isTokenBlacklisted(B, token) == \E r \in Rows(B) : r.token = token

\* variant: the comparison the other way round (expiresAt > datetime("now"))
DeleteExpired_reversed(T, t) ==
  LET Keep(r) == ~TextLess(DatetimeNow(t), r.expiresAt) IN Retain(T, Keep)

\* variant: a run deletes one of the expired rows (DELETE ... LIMIT 1)
DeleteExpired_oneRow(T, t) ==
  LET expired == {r \in Rows(T) : TextLess(r.expiresAt, DatetimeNow(t))}
      victim == CHOOSE r \in expired : TRUE
      Keep(r) == r # victim
  IN IF expired = {} THEN T ELSE Retain(T, Keep)

\* variant: the date parts alone are compared, the rows of today included
DeleteExpired_sameDay(T, t) ==
  LET Keep(r) == r.expiresAt.date > DatetimeNow(t).date IN Retain(T, Keep)

\* DELETE FROM <table> WHERE expiresAt < datetime("now")
DeleteExpired(T, t) ==
  LET Keep(r) == ~TextLess(r.expiresAt, DatetimeNow(t)) IN Retain(T, Keep)

\* ------------------------------------------------------------------------
\* utils/jwt with the secrets of the environment
\* ------------------------------------------------------------------------
generateAccessToken(payload, t) == Sign(payload, env.JWT_SECRET, AccessTTL, t)

generateRefreshToken(payload, t) == Sign(payload, env.JWT_REFRESH_SECRET, RefreshTTL, t)

\* variant: a token signed with the refresh secret verifies as well
verifyAccessToken_eitherSecret(token, t) ==
  IF JwtVerify(token, env.JWT_REFRESH_SECRET, t).err = "none"
  THEN JwtVerify(token, env.JWT_REFRESH_SECRET, t)
  ELSE JwtVerify(token, env.JWT_SECRET, t)

verifyAccessToken(token, t) == JwtVerify(token, env.JWT_SECRET, t)

verifyRefreshToken(token, t) == JwtVerify(token, env.JWT_REFRESH_SECRET, t)

\* the expiry of a dummy token signed at clock reading t
getTokenExpiration(ttl, t) == Sign([userId |-> "none", email |-> "none"], "dummy", ttl, t).exp

\* ------------------------------------------------------------------------
\* Responses
\* ------------------------------------------------------------------------
\* message: the text of the body, carried for the responses of login and
\* left empty for the others
ErrorResponse(status, code) ==
  [status |-> status, code |-> code, message |-> "", accessToken |-> NoToken,
   refreshToken |-> NoToken, expiresIn |-> 0, user |-> NoReqUser]

ErrorMessage(status, code, message) ==
  [ErrorResponse(status, code) EXCEPT !.message = message]

NoResponse == ErrorResponse(0, "none")

InternalError == ErrorResponse(500, "INTERNAL_ERROR")

\* what a handler leaves behind: its response, the two tables, the tokens
\* handed to the client and the clock reading at its end
Outcome(resp, L, B, minted, t) ==
  [resp |-> resp, ledger |-> L, blacklist |-> B, minted |-> minted, clock |-> t]

Rejected(resp) == Outcome(resp, ledger, blacklist, {}, now)

\* ------------------------------------------------------------------------
\* middleware/auth: authenticate
\* A header is the list of its space-separated words; f names the store
\* call that fails during the execution ("none": no failure).
\* ------------------------------------------------------------------------
NoHeader == <<>>

StartsWithBearer(h) == Len(h) >= 2 /\ h[1] = "Bearer"

AuthResult(next, status, code, user, token) ==
  [next |-> next, status |-> status, code |-> code, user |-> user, token |-> token]

AuthError(status, code) == AuthResult(FALSE, status, code, NoReqUser, NoToken)

\* variant: the token is verified before the blacklist is consulted
authenticate_verifiesFirst(h, f) ==
  IF ~StartsWithBearer(h) THEN AuthError(401, "UNAUTHORIZED")
  ELSE LET token == h[2]
           v == verifyAccessToken(token, now)
    IN
    IF v.err = "TokenExpiredError" THEN AuthError(401, "TOKEN_EXPIRED")
    ELSE IF v.err # "none" THEN AuthError(401, "INVALID_TOKEN")
    ELSE IF f = "isTokenBlacklisted" THEN AuthError(500, "INTERNAL_ERROR")
    ELSE IF isTokenBlacklisted(blacklist, token) THEN AuthError(401, "TOKEN_BLACKLISTED")
    ELSE IF f = "findById" THEN AuthError(401, "INVALID_TOKEN")
    ELSE LET user == FindById(v.payload.userId) IN
      IF user = NoUser THEN AuthError(401, "USER_NOT_FOUND")
      ELSE AuthResult(TRUE, 0, "none", formatUser(user), token)

authenticate(h, f) ==
  IF ~StartsWithBearer(h) THEN AuthError(401, "UNAUTHORIZED")
  ELSE LET token == h[2] IN
    IF f = "isTokenBlacklisted" THEN AuthError(500, "INTERNAL_ERROR")
    ELSE IF isTokenBlacklisted(blacklist, token) THEN AuthError(401, "TOKEN_BLACKLISTED")
    ELSE LET v == verifyAccessToken(token, now) IN
      IF v.err = "TokenExpiredError" THEN AuthError(401, "TOKEN_EXPIRED")
      ELSE IF v.err # "none" THEN AuthError(401, "INVALID_TOKEN")
      \* a rejected user lookup is caught by the handler of the JWT errors
      ELSE IF f = "findById" THEN AuthError(401, "INVALID_TOKEN")
      ELSE LET user == FindById(v.payload.userId) IN
        IF user = NoUser THEN AuthError(401, "USER_NOT_FOUND")
        ELSE AuthResult(TRUE, 0, "none", formatUser(user), token)

\* variant: the USER_NOT_FOUND response is sent without leaving the handler
authenticateCalls_fallsThrough(h, f) ==
  IF ~StartsWithBearer(h) THEN <<"res.json">>
  ELSE LET token == h[2] IN
    IF f = "isTokenBlacklisted" THEN <<"res.json">>
    ELSE IF isTokenBlacklisted(blacklist, token) THEN <<"res.json">>
    ELSE LET v == verifyAccessToken(token, now) IN
      IF v.err # "none" THEN <<"res.json">>
      ELSE IF f = "findById" THEN <<"res.json">>
      ELSE IF FindById(v.payload.userId) = NoUser THEN <<"res.json", "next">>
      ELSE <<"next">>

\* the calls authenticate makes on res and next, in their order: every
\* res.status(..).json(..) is returned from the handler, next() is the last
\* statement of the inner try block, and the route handlers behind next()
\* are async functions, which do not throw into their caller
authenticateCalls(h, f) ==
  IF ~StartsWithBearer(h) THEN <<"res.json">>
  ELSE LET token == h[2] IN
    IF f = "isTokenBlacklisted" THEN <<"res.json">>
    ELSE IF isTokenBlacklisted(blacklist, token) THEN <<"res.json">>
    ELSE LET v == verifyAccessToken(token, now) IN
      IF v.err # "none" THEN <<"res.json">>
      ELSE IF f = "findById" THEN <<"res.json">>
      ELSE IF FindById(v.payload.userId) = NoUser THEN <<"res.json">>
      ELSE <<"next">>

\* ------------------------------------------------------------------------
\* controllers/authController
\* ------------------------------------------------------------------------
\* variant: a login ends the earlier sessions of the user
login_singleSession(email, password, d, f) ==
  IF f = "findByEmail" THEN Rejected(InternalError)
  ELSE LET user == FindByEmail(email) IN
    IF user = NoUser
      THEN Rejected(ErrorMessage(401, "INVALID_CREDENTIALS", "Invalid email or password"))
    ELSE IF ~verifyPassword(password, user.password)
      THEN Rejected(ErrorMessage(401, "INVALID_CREDENTIALS", "Invalid email or password"))
    ELSE
      LET tokenPayload == [userId |-> user.id, email |-> user.email]
          accessToken == generateAccessToken(tokenPayload, now)
          refreshToken == generateRefreshToken(tokenPayload, now)
          refreshTokenExpiration == getTokenExpiration(RefreshTTL, now + d)
      IN
        IF f = "createRefreshToken"
        THEN Outcome(InternalError, ledger, blacklist, {}, now + d)
        ELSE
          LET expiresIn == decodeToken(accessToken).exp - (now + d) IN
          Outcome([status |-> 200, code |-> "OK", message |-> "Login successful",
                   accessToken |-> accessToken,
                   refreshToken |-> refreshToken, expiresIn |-> expiresIn,
                   user |-> formatUser(user)],
                  createRefreshToken(deleteUserRefreshTokens(ledger, user.id), user.id, refreshToken,
                                     ToISOString(refreshTokenExpiration)),
                  blacklist, {accessToken, refreshToken}, now + d)

\* variant: the token pair is returned although the ledger write failed
login_tokensDespiteFailure(email, password, d, f) ==
  IF f = "findByEmail" THEN Rejected(InternalError)
  ELSE LET user == FindByEmail(email) IN
    IF user = NoUser
      THEN Rejected(ErrorMessage(401, "INVALID_CREDENTIALS", "Invalid email or password"))
    ELSE IF ~verifyPassword(password, user.password)
      THEN Rejected(ErrorMessage(401, "INVALID_CREDENTIALS", "Invalid email or password"))
    ELSE
      LET tokenPayload == [userId |-> user.id, email |-> user.email]
          accessToken == generateAccessToken(tokenPayload, now)
          refreshToken == generateRefreshToken(tokenPayload, now)
          refreshTokenExpiration == getTokenExpiration(RefreshTTL, now + d)
      IN
          LET expiresIn == decodeToken(accessToken).exp - (now + d) IN
          Outcome([status |-> 200, code |-> "OK", message |-> "Login successful",
                   accessToken |-> accessToken,
                   refreshToken |-> refreshToken, expiresIn |-> expiresIn,
                   user |-> formatUser(user)],
                  IF f = "createRefreshToken" THEN ledger
                  ELSE createRefreshToken(ledger, user.id, refreshToken,
                                          ToISOString(refreshTokenExpiration)),
                  blacklist, {accessToken, refreshToken}, now + d)

\* variant: an unknown email is told apart from a wrong password
login_revealsUnknownEmail(email, password, d, f) ==
  IF f = "findByEmail" THEN Rejected(InternalError)
  ELSE LET user == FindByEmail(email) IN
    IF user = NoUser
      THEN Rejected(ErrorMessage(404, "USER_NOT_FOUND", "User not found"))
    ELSE IF ~verifyPassword(password, user.password)
      THEN Rejected(ErrorMessage(401, "INVALID_CREDENTIALS", "Invalid email or password"))
    ELSE
      LET tokenPayload == [userId |-> user.id, email |-> user.email]
          accessToken == generateAccessToken(tokenPayload, now)
          refreshToken == generateRefreshToken(tokenPayload, now)
          refreshTokenExpiration == getTokenExpiration(RefreshTTL, now + d)
      IN
        IF f = "createRefreshToken"
        THEN Outcome(InternalError, ledger, blacklist, {}, now + d)
        ELSE
          LET expiresIn == decodeToken(accessToken).exp - (now + d) IN
          Outcome([status |-> 200, code |-> "OK", message |-> "Login successful",
                   accessToken |-> accessToken,
                   refreshToken |-> refreshToken, expiresIn |-> expiresIn,
                   user |-> formatUser(user)],
                  createRefreshToken(ledger, user.id, refreshToken,
                                     ToISOString(refreshTokenExpiration)),
                  blacklist, {accessToken, refreshToken}, now + d)

\* d: seconds by which the clock advances between signing the tokens and
\* the later clock readings of the handler
login(email, password, d, f) ==
  IF f = "findByEmail" THEN Rejected(InternalError)
  ELSE LET user == FindByEmail(email) IN
    IF user = NoUser
      THEN Rejected(ErrorMessage(401, "INVALID_CREDENTIALS", "Invalid email or password"))
    ELSE IF ~verifyPassword(password, user.password)
      THEN Rejected(ErrorMessage(401, "INVALID_CREDENTIALS", "Invalid email or password"))
    ELSE
      LET tokenPayload == [userId |-> user.id, email |-> user.email]
          accessToken == generateAccessToken(tokenPayload, now)
          refreshToken == generateRefreshToken(tokenPayload, now)
          refreshTokenExpiration == getTokenExpiration(RefreshTTL, now + d)
      IN
        IF f = "createRefreshToken"
        THEN Outcome(InternalError, ledger, blacklist, {}, now + d)
        ELSE
          LET expiresIn == decodeToken(accessToken).exp - (now + d) IN
          Outcome([status |-> 200, code |-> "OK", message |-> "Login successful",
                   accessToken |-> accessToken,
                   refreshToken |-> refreshToken, expiresIn |-> expiresIn,
                   user |-> formatUser(user)],
                  createRefreshToken(ledger, user.id, refreshToken,
                                     ToISOString(refreshTokenExpiration)),
                  blacklist, {accessToken, refreshToken}, now + d)

\* a body field that is present and not the empty string
Truthy(token) == token # NoToken /\ token # EmptyToken

Success == ErrorResponse(200, "OK")

\* variant: the refresh token is deleted from the ledger but not blacklisted
logoutRefreshToken_deleteOnly(reqUser, refreshToken, B1, f) ==
  IF f = "findRefreshToken" THEN Outcome(InternalError, ledger, B1, {}, now)
  ELSE LET refreshTokenData == findRefreshToken(ledger, refreshToken) IN
    IF ~(refreshTokenData # NoRow /\ refreshTokenData.userId = reqUser.id)
    THEN Outcome(Success, ledger, B1, {}, now)
    ELSE IF f = "deleteRefreshToken" THEN Outcome(InternalError, ledger, B1, {}, now)
    ELSE Outcome(Success, deleteRefreshToken(ledger, refreshToken), B1, {}, now)

\* variant: the owner of the ledger row is not compared with the caller
logoutRefreshToken_anyOwner(reqUser, refreshToken, B1, f) ==
  IF f = "findRefreshToken" THEN Outcome(InternalError, ledger, B1, {}, now)
  ELSE LET refreshTokenData == findRefreshToken(ledger, refreshToken) IN
    IF ~(refreshTokenData # NoRow)
    THEN Outcome(Success, ledger, B1, {}, now)
    ELSE IF f = "deleteRefreshToken" THEN Outcome(InternalError, ledger, B1, {}, now)
    ELSE
      LET L1 == deleteRefreshToken(ledger, refreshToken)
          v == verifyRefreshToken(refreshToken, now)
      IN
      IF v.err # "none" \/ f = "blacklistRefresh"
      THEN Outcome(Success, L1, B1, {}, now)
      ELSE Outcome(Success, L1,
                   blacklistToken(B1, refreshToken, ToISOString(v.payload.exp)),
                   {}, now)

\* variant: the refresh token is decoded without verification and blacklisted
logoutRefreshToken_blacklistsUnverified(reqUser, refreshToken, B1, f) ==
  IF f = "findRefreshToken" THEN Outcome(InternalError, ledger, B1, {}, now)
  ELSE LET refreshTokenData == findRefreshToken(ledger, refreshToken) IN
    IF ~(refreshTokenData # NoRow /\ refreshTokenData.userId = reqUser.id)
    THEN Outcome(Success, ledger, B1, {}, now)
    ELSE IF f = "deleteRefreshToken" THEN Outcome(InternalError, ledger, B1, {}, now)
    ELSE
      LET L1 == deleteRefreshToken(ledger, refreshToken)
          refreshTokenDecoded == decodeToken(refreshToken)
      IN
      IF refreshTokenDecoded = NoToken \/ f = "blacklistRefresh"
      THEN Outcome(Success, L1, B1, {}, now)
      ELSE Outcome(Success, L1,
                   blacklistToken(B1, refreshToken, ToISOString(refreshTokenDecoded.exp)),
                   {}, now)

\* variant: the refresh token is blacklisted and its ledger row is kept
logoutRefreshToken_blacklistOnly(reqUser, refreshToken, B1, f) ==
  IF f = "findRefreshToken" THEN Outcome(InternalError, ledger, B1, {}, now)
  ELSE LET refreshTokenData == findRefreshToken(ledger, refreshToken) IN
    IF ~(refreshTokenData # NoRow /\ refreshTokenData.userId = reqUser.id)
    THEN Outcome(Success, ledger, B1, {}, now)
    ELSE
      LET v == verifyRefreshToken(refreshToken, now) IN
      IF v.err # "none" \/ f = "blacklistRefresh"
      THEN Outcome(Success, ledger, B1, {}, now)
      ELSE Outcome(Success, ledger,
                   blacklistToken(B1, refreshToken, ToISOString(v.payload.exp)),
                   {}, now)

\* variant: every ledger row of the caller is deleted with the named one
logoutRefreshToken_deletesSessions(reqUser, refreshToken, B1, f) ==
  IF f = "findRefreshToken" THEN Outcome(InternalError, ledger, B1, {}, now)
  ELSE LET refreshTokenData == findRefreshToken(ledger, refreshToken) IN
    IF ~(refreshTokenData # NoRow /\ refreshTokenData.userId = reqUser.id)
    THEN Outcome(Success, ledger, B1, {}, now)
    ELSE IF f = "deleteRefreshToken" THEN Outcome(InternalError, ledger, B1, {}, now)
    ELSE
      LET L1 == deleteUserRefreshTokens(ledger, reqUser.id)
          v == verifyRefreshToken(refreshToken, now)
      IN
      IF v.err # "none" \/ f = "blacklistRefresh"
      THEN Outcome(Success, L1, B1, {}, now)
      ELSE Outcome(Success, L1,
                   blacklistToken(B1, refreshToken, ToISOString(v.payload.exp)),
                   {}, now)

\* the conditional step of logout, for a refresh token in the body; B1 is
\* the blacklist with the row of the access token
logoutRefreshToken(reqUser, refreshToken, B1, f) ==
  IF f = "findRefreshToken" THEN Outcome(InternalError, ledger, B1, {}, now)
  ELSE LET refreshTokenData == findRefreshToken(ledger, refreshToken) IN
    IF ~(refreshTokenData # NoRow /\ refreshTokenData.userId = reqUser.id)
    THEN Outcome(Success, ledger, B1, {}, now)
    ELSE IF f = "deleteRefreshToken" THEN Outcome(InternalError, ledger, B1, {}, now)
    ELSE
      LET L1 == deleteRefreshToken(ledger, refreshToken)
          v == verifyRefreshToken(refreshToken, now)
      IN
      \* a verification error and a failed blacklist write are both swallowed
      IF v.err # "none" \/ f = "blacklistRefresh"
      THEN Outcome(Success, L1, B1, {}, now)
      ELSE Outcome(Success, L1,
                   blacklistToken(B1, refreshToken, ToISOString(v.payload.exp)),
                   {}, now)

\* variant: a logout without refresh token ends every session of the caller
logout_allSessions(reqUser, reqToken, refreshToken, f) ==
  LET accessTokenDecoded == decodeToken(reqToken) IN
  IF accessTokenDecoded = NoToken THEN Rejected(InternalError)
  ELSE IF f = "blacklistAccess" THEN Rejected(InternalError)
  ELSE
    LET B1 == blacklistToken(blacklist, reqToken, ToISOString(accessTokenDecoded.exp)) IN
    IF ~Truthy(refreshToken)
    THEN Outcome(Success, deleteUserRefreshTokens(ledger, reqUser.id), B1, {}, now)
    ELSE logoutRefreshToken(reqUser, refreshToken, B1, f)

\* reqUser, reqToken: what authenticate left in req; refreshToken: the body
logout(reqUser, reqToken, refreshToken, f) ==
  LET accessTokenDecoded == decodeToken(reqToken) IN
  IF accessTokenDecoded = NoToken THEN Rejected(InternalError)
  ELSE IF f = "blacklistAccess" THEN Rejected(InternalError)
  ELSE
    LET B1 == blacklistToken(blacklist, reqToken, ToISOString(accessTokenDecoded.exp)) IN
    IF ~Truthy(refreshToken) THEN Outcome(Success, ledger, B1, {}, now)
    ELSE logoutRefreshToken(reqUser, refreshToken, B1, f)

\* variant: the ledger row of the token is deleted when it has been used
refreshVerified_singleUse(refreshToken, payload, d, f) ==
  IF f = "findById" THEN Rejected(ErrorResponse(401, "INVALID_REFRESH_TOKEN"))
  ELSE LET user == FindById(payload.userId) IN
    IF user = NoUser THEN Rejected(ErrorResponse(401, "USER_NOT_FOUND"))
    ELSE
      LET tokenPayload == [userId |-> user.id, email |-> user.email]
          newAccessToken == generateAccessToken(tokenPayload, now)
          expiresIn == decodeToken(newAccessToken).exp - (now + d)
      IN Outcome([status |-> 200, code |-> "OK", message |-> "",
                  accessToken |-> newAccessToken,
                  refreshToken |-> NoToken, expiresIn |-> expiresIn,
                  user |-> NoReqUser],
                 deleteRefreshToken(ledger, refreshToken), blacklist,
                 {newAccessToken}, now + d)

\* variant: the token is blacklisted when it has been used
refreshVerified_blacklistsUsed(refreshToken, payload, d, f) ==
  IF f = "findById" THEN Rejected(ErrorResponse(401, "INVALID_REFRESH_TOKEN"))
  ELSE LET user == FindById(payload.userId) IN
    IF user = NoUser THEN Rejected(ErrorResponse(401, "USER_NOT_FOUND"))
    ELSE
      LET tokenPayload == [userId |-> user.id, email |-> user.email]
          newAccessToken == generateAccessToken(tokenPayload, now)
          expiresIn == decodeToken(newAccessToken).exp - (now + d)
      IN Outcome([status |-> 200, code |-> "OK", message |-> "",
                  accessToken |-> newAccessToken,
                  refreshToken |-> NoToken, expiresIn |-> expiresIn,
                  user |-> NoReqUser],
                 ledger, blacklistToken(blacklist, refreshToken, ToISOString(payload.exp)),
                 {newAccessToken}, now + d)

\* variant: expiresIn is the configured duration of an access token
refreshVerified_configuredDuration(refreshToken, payload, d, f) ==
  \* a rejected user lookup is caught by the handler of the JWT errors
  IF f = "findById" THEN Rejected(ErrorResponse(401, "INVALID_REFRESH_TOKEN"))
  ELSE LET user == FindById(payload.userId) IN
    IF user = NoUser THEN Rejected(ErrorResponse(401, "USER_NOT_FOUND"))
    ELSE
      LET tokenPayload == [userId |-> user.id, email |-> user.email]
          newAccessToken == generateAccessToken(tokenPayload, now)
          expiresIn == AccessTTL
      IN Outcome([status |-> 200, code |-> "OK", message |-> "",
                  accessToken |-> newAccessToken,
                  refreshToken |-> NoToken, expiresIn |-> expiresIn,
                  user |-> NoReqUser],
                 ledger, blacklist, {newAccessToken}, now + d)

\* the try block of refresh after a successful verification: user lookup
\* and minting of the new access token
refreshVerified(refreshToken, payload, d, f) ==
  \* a rejected user lookup is caught by the handler of the JWT errors
  IF f = "findById" THEN Rejected(ErrorResponse(401, "INVALID_REFRESH_TOKEN"))
  ELSE LET user == FindById(payload.userId) IN
    IF user = NoUser THEN Rejected(ErrorResponse(401, "USER_NOT_FOUND"))
    ELSE
      LET tokenPayload == [userId |-> user.id, email |-> user.email]
          newAccessToken == generateAccessToken(tokenPayload, now)
          expiresIn == decodeToken(newAccessToken).exp - (now + d)
      IN Outcome([status |-> 200, code |-> "OK", message |-> "",
                  accessToken |-> newAccessToken,
                  refreshToken |-> NoToken, expiresIn |-> expiresIn,
                  user |-> NoReqUser],
                 ledger, blacklist, {newAccessToken}, now + d)

\* variant: the ledger row is kept when the token has expired
refreshJwtError_keepsRow(refreshToken, name, f) ==
  IF name = "TokenExpiredError"
  THEN Rejected(ErrorResponse(401, "REFRESH_TOKEN_EXPIRED"))
  ELSE Rejected(ErrorResponse(401, "INVALID_REFRESH_TOKEN"))

\* variant: the ledger row is deleted whatever the verification error
refreshJwtError_deletesAlways(refreshToken, name, f) ==
  IF f = "deleteRefreshToken" THEN Rejected(InternalError)
  ELSE Outcome(ErrorResponse(401, IF name = "TokenExpiredError"
                                  THEN "REFRESH_TOKEN_EXPIRED"
                                  ELSE "INVALID_REFRESH_TOKEN"),
               deleteRefreshToken(ledger, refreshToken), blacklist, {}, now)

\* the catch block of refresh for a verification error of the given name
refreshJwtError(refreshToken, name, f) ==
  IF name = "TokenExpiredError"
  THEN IF f = "deleteRefreshToken" THEN Rejected(InternalError)
       ELSE Outcome(ErrorResponse(401, "REFRESH_TOKEN_EXPIRED"),
                    deleteRefreshToken(ledger, refreshToken), blacklist, {}, now)
  ELSE Rejected(ErrorResponse(401, "INVALID_REFRESH_TOKEN"))

\* variant: the ledger is consulted before the blacklist
refreshAccessToken_ledgerFirst(refreshToken, d, f) ==
  IF f = "findRefreshToken" THEN Rejected(InternalError)
  ELSE IF findRefreshToken(ledger, refreshToken) = NoRow
    THEN Rejected(ErrorResponse(401, "INVALID_REFRESH_TOKEN"))
  ELSE IF f = "isTokenBlacklisted" THEN Rejected(InternalError)
  ELSE IF isTokenBlacklisted(blacklist, refreshToken)
    THEN Rejected(ErrorResponse(401, "TOKEN_BLACKLISTED"))
  ELSE LET v == verifyRefreshToken(refreshToken, now) IN
    IF v.err # "none" THEN refreshJwtError(refreshToken, v.err, f)
    ELSE refreshVerified(refreshToken, v.payload, d, f)

\* d: seconds by which the clock advances between signing the new token
\* and reading the clock for expiresIn
refreshAccessToken(refreshToken, d, f) ==
  IF f = "isTokenBlacklisted" THEN Rejected(InternalError)
  ELSE IF isTokenBlacklisted(blacklist, refreshToken)
    THEN Rejected(ErrorResponse(401, "TOKEN_BLACKLISTED"))
  ELSE IF f = "findRefreshToken" THEN Rejected(InternalError)
  ELSE IF findRefreshToken(ledger, refreshToken) = NoRow
    THEN Rejected(ErrorResponse(401, "INVALID_REFRESH_TOKEN"))
  ELSE LET v == verifyRefreshToken(refreshToken, now) IN
    IF v.err # "none" THEN refreshJwtError(refreshToken, v.err, f)
    ELSE refreshVerified(refreshToken, v.payload, d, f)

\* variant: the ledger is swept first, the blacklist second
cleanupExpiredTokens_ledgerFirst(f) ==
  IF f = "sweepLedger" THEN Rejected(InternalError)
  ELSE IF f = "sweepBlacklist"
    THEN Outcome(InternalError, DeleteExpired(ledger, now), blacklist, {}, now)
  ELSE Outcome(ErrorResponse(200, "OK"), DeleteExpired(ledger, now),
               DeleteExpired(blacklist, now), {}, now)

\* variant: the blacklist alone is swept
cleanupExpiredTokens_blacklistOnly(f) ==
  IF f = "sweepBlacklist" THEN Rejected(InternalError)
  ELSE Outcome(ErrorResponse(200, "OK"), ledger, DeleteExpired(blacklist, now), {}, now)

\* Token.cleanupExpiredTokens under the catch of the server's timer callback
cleanupExpiredTokens(f) ==
  IF f = "sweepBlacklist" THEN Rejected(InternalError)
  ELSE IF f = "sweepLedger"
    THEN Outcome(InternalError, ledger, DeleteExpired(blacklist, now), {}, now)
  ELSE Outcome(ErrorResponse(200, "OK"), DeleteExpired(ledger, now),
               DeleteExpired(blacklist, now), {}, now)

\* ------------------------------------------------------------------------
\* controllers/userController; U is the users table the lookup reads
\* ------------------------------------------------------------------------
UserResponse(message, user) ==
  [ErrorMessage(200, "OK", message) EXCEPT !.user = formatUser(user)]

getProfile(reqUser, f) ==
  IF f = "findById" THEN InternalError
  ELSE LET user == FindById(reqUser.id) IN
    IF user = NoUser THEN ErrorMessage(404, "USER_NOT_FOUND", "User not found")
    ELSE UserResponse("", user)

\* the response of updateProfile, U being the users table after User.update
updateProfile(reqUser, U, f) ==
  IF f \in {"update", "findById"} THEN InternalError
  ELSE IF ~\E u \in U : u.id = reqUser.id
    THEN ErrorMessage(404, "USER_NOT_FOUND", "User not found")
  ELSE UserResponse("Profile updated successfully",
                    CHOOSE u \in U : u.id = reqUser.id)

\* ------------------------------------------------------------------------
\* The requests clients can send
\* ------------------------------------------------------------------------
\* a client can present a token it was handed, one it signed itself, or junk
Presentable == issued \cup {ForgedToken, MalformedToken}

Headers ==
  {NoHeader, <<"Bearer">>, <<"Bearer", EmptyToken>>, <<"Basic", MalformedToken>>}
    \cup {<<"Bearer", t>> : t \in Presentable}

Skews == 0..MaxSkew

\* the request and the response of the step that led to the current state
\* fault: the store call that was made to fail during the step
Last(op, header, email, password, refreshToken, resp, auth) ==
  [op |-> op, header |-> header, email |-> email, password |-> password,
   refreshToken |-> refreshToken, resp |-> resp, auth |-> auth, fault |-> "none",
   owned |-> FALSE, body |-> <<>>, calls |-> <<>>]

Faulted(l, f) == [l EXCEPT !.fault = f]

\* calls: what the authenticate middleware called on res and next
Called(l, c) == [l EXCEPT !.calls = c]

\* owned: the token of a logout body had a ledger row of the caller when the
\* request arrived
Owned(l, b) == [l EXCEPT !.owned = b]

NoAuth == AuthResult(FALSE, 0, "none", NoReqUser, NoToken)

Idle == Last("idle", NoHeader, "none", "none", NoToken, NoResponse, NoAuth)

\* requests are handled one at a time: a handler runs when the previous
\* response has been delivered
Apply(o) ==
  /\ last = Idle
  /\ o.clock <= MaxTime
  /\ RowCount(o.ledger) <= MaxLedger
  /\ Cardinality(issued \cup o.minted) <= MaxIssued
  /\ now' = o.clock
  /\ ledger' = o.ledger
  /\ blacklist' = o.blacklist
  /\ UNCHANGED <<env, users, issued>>

\* ------------------------------------------------------------------------
\* Initial state: the seeded users, empty token tables
\* ------------------------------------------------------------------------
Init ==
  /\ now = 0
  /\ env = [JWT_SECRET |-> AccessSecret, JWT_REFRESH_SECRET |-> RefreshSecret]
  /\ users = SeedUsers
  /\ ledger = EmptyBag
  /\ blacklist = EmptyBag
  /\ issued = {}
  /\ revoked = {}
  /\ last = Idle
  /\ sweeper = [up |-> TRUE, armed |-> FALSE, due |-> 0, runs |-> 0, failures |-> 0]
  /\ procs = <<>>
  /\ base = [ledger |-> EmptyBag, blacklist |-> EmptyBag, running |-> 0, switches |-> 0]

\* ------------------------------------------------------------------------
\* Steps
\* ------------------------------------------------------------------------
\* one second passes
Tick ==
  /\ last = Idle
  /\ now < MaxTime
  /\ now' = now + 1
  /\ UNCHANGED <<env, users, ledger, blacklist, issued, revoked, last, server>>

\* POST /api/auth/login
Login(email, password, d, f) ==
  LET o == login(email, password, d, f) IN
  /\ Apply(o)
  /\ last' = Faulted(Last("login", NoHeader, email, password, NoToken, o.resp, NoAuth), f)
  /\ UNCHANGED <<revoked, server>>

\* any protected request: the authenticate middleware alone
Authenticate(h, f) ==
  LET a == authenticate(h, f) IN
  /\ last = Idle
  /\ last' = Called(Faulted(Last("authenticate", h, "none", "none", NoToken,
                                 ErrorResponse(a.status, a.code), a), f),
                    authenticateCalls(h, f))
  /\ UNCHANGED <<now, env, users, ledger, blacklist, issued, revoked, server>>

\* POST /api/auth/logout: authenticate, then logout
Logout(h, refreshToken, fa, f) ==
  LET a == authenticate(h, fa)
      o == IF a.next THEN logout(a.user, a.token, refreshToken, f)
           ELSE Rejected(ErrorResponse(a.status, a.code))
  IN
  /\ Apply(o)
  /\ last' = Called(Owned(Faulted(Last("logout", h, "none", "none", refreshToken, o.resp, a),
                                  IF fa # "none" THEN fa ELSE f),
                          a.next /\ \E r \in Rows(ledger) :
                                      r.token = refreshToken /\ r.userId = a.user.id),
                    authenticateCalls(h, fa))
  /\ revoked' = IF a.next /\ o.resp.status = 200
                THEN revoked \cup {a.token}
                       \cup {r \in {refreshToken} : IsRefreshToken(r) /\ r.userId = a.user.id}
                ELSE revoked
  /\ UNCHANGED server

\* POST /api/auth/refresh
Refresh(refreshToken, d, f) ==
  LET o == refreshAccessToken(refreshToken, d, f) IN
  /\ Apply(o)
  /\ last' = Faulted(Last("refresh", NoHeader, "none", "none", refreshToken, o.resp, NoAuth), f)
  /\ UNCHANGED <<revoked, server>>

\* the timer callback of the server
Sweep(f) ==
  LET o == cleanupExpiredTokens(f) IN
  /\ Apply(o)
  /\ last' = Faulted(Last("sweep", NoHeader, "none", "none", NoToken, o.resp, NoAuth), f)
  /\ UNCHANGED <<revoked, server>>

\* CLEANUP_INTERVAL, 24 hours
CleanupInterval == SecondsPerDay

\* variant: a rejected cleanup is not caught and ends the process
cleanup_unhandled(s, o) ==
  IF o.resp.status = 200
  THEN [s EXCEPT !.runs = @ + 1]
  ELSE [s EXCEPT !.runs = @ + 1, !.failures = @ + 1, !.up = FALSE, !.armed = FALSE]

\* the callback cleanup of server.js around the run with outcome o: the
\* result is logged, a rejection is caught and logged
cleanup(s, o) ==
  IF o.resp.status = 200
  THEN [s EXCEPT !.runs = @ + 1]
  ELSE [s EXCEPT !.runs = @ + 1, !.failures = @ + 1]

\* variant: the timer is set and the first run waits for it
startSweeper_timerOnly(s, o) == [s EXCEPT !.armed = TRUE, !.due = now]

\* cleanupExpiredTokens of server.js, o being the outcome of the first run:
\* setInterval(cleanup, CLEANUP_INTERVAL); cleanup()
startSweeper(s, o) ==
  cleanup([s EXCEPT !.armed = TRUE, !.due = now + CleanupInterval], o)

TimerDue == sweeper.up /\ sweeper.armed /\ now >= sweeper.due

\* the server accepts requests once it has been started
Serving == sweeper.up /\ sweeper.armed

\* startServer: the sweeper is started, with its first run at once
StartServer(f) ==
  LET o == cleanupExpiredTokens(f)
      s == startSweeper(sweeper, o)
      ran == s.runs > sweeper.runs
  IN
  /\ sweeper.up /\ ~sweeper.armed
  /\ Apply(IF ran THEN o ELSE Rejected(NoResponse))
  /\ last' = IF ran
             THEN Faulted(Last("sweep", NoHeader, "none", "none", NoToken, o.resp, NoAuth), f)
             ELSE last
  /\ sweeper' = s
  /\ UNCHANGED <<revoked, procs, base>>

\* the interval timer fires
TimerFire(f) ==
  LET o == cleanupExpiredTokens(f) IN
  /\ TimerDue
  /\ Apply(o)
  /\ last' = Faulted(Last("sweep", NoHeader, "none", "none", NoToken, o.resp, NoAuth), f)
  /\ sweeper' = cleanup([sweeper EXCEPT !.due = @ + CleanupInterval], o)
  /\ UNCHANGED <<revoked, procs, base>>

\* one second passes, unless the timer is due
TickTimer == ~TimerDue /\ Tick

\* GET /api/user/profile: authenticate, then getProfile
GetProfile(h, fa, f) ==
  LET a == authenticate(h, fa)
      resp == IF a.next THEN getProfile(a.user, f) ELSE ErrorResponse(a.status, a.code)
  IN
  /\ last = Idle
  /\ last' = Called(Faulted(Last("getProfile", h, "none", "none", NoToken, resp, a),
                            IF fa # "none" THEN fa ELSE f),
                    authenticateCalls(h, fa))
  /\ UNCHANGED <<now, env, users, ledger, blacklist, issued, revoked, server>>

\* PUT /api/user/profile: authenticate, the validation of the payload (the
\* payloads sent here pass it), then updateProfile
UpdateProfile(h, updateData, fa, f) ==
  LET a == authenticate(h, fa)
      U == IF a.next /\ f # "update" THEN update(a.user.id, updateData, now) ELSE users
      resp == IF a.next THEN updateProfile(a.user, U, f)
              ELSE ErrorResponse(a.status, a.code)
  IN
  /\ last = Idle
  /\ users' = U
  /\ last' = [Called(Faulted(Last("updateProfile", h, "none", "none", NoToken, resp, a),
                             IF fa # "none" THEN fa ELSE f),
                     authenticateCalls(h, fa))
              EXCEPT !.body = updateData]
  /\ UNCHANGED <<now, env, ledger, blacklist, issued, revoked, server>>

\* PUT /api/user/profile when the row of the caller has left the table
\* after authenticate read it: the UPDATE matches no row, findById finds none
UpdateProfileGone(h, updateData) ==
  LET a == authenticate(h, "none")
      U == {u \in update(a.user.id, updateData, now) : u.id # a.user.id}
  IN
  /\ last = Idle
  /\ a.next
  /\ users' = U
  /\ last' = [Called(Faulted(Last("updateProfile", h, "none", "none", NoToken,
                                  updateProfile(a.user, U, "none"), a), "userGone"),
                     authenticateCalls(h, "none"))
              EXCEPT !.body = updateData]
  /\ UNCHANGED <<now, env, ledger, blacklist, issued, revoked, server>>

\* a direct call of User.update(id, updateData), as its unit tests make it;
\* the record it returns is kept, less its password, as the response
CallUpdate(id, updateData) ==
  LET U == update(id, updateData, now)
      found == \E u \in U : u.id = id
  IN
  /\ last = Idle
  /\ users' = U
  /\ last' = [Called(Last("update", NoHeader, "none", "none", NoToken,
                          IF found THEN UserResponse("", CHOOSE u \in U : u.id = id)
                          ELSE NoResponse, NoAuth),
                     updateStatements(id, updateData))
              EXCEPT !.body = updateData]
  /\ UNCHANGED <<now, env, ledger, blacklist, issued, revoked, server>>

\* the response reaches the client, who from now on holds its tokens
Deliver ==
  /\ last # Idle
  /\ issued' = issued \cup ({last.resp.accessToken, last.resp.refreshToken} \ {NoToken})
  /\ last' = Idle
  /\ UNCHANGED <<now, env, users, ledger, blacklist, revoked, server>>

\* ------------------------------------------------------------------------
\* The handlers store call by store call: a request being handled is a
\* record p with the store call it makes next (pc) and its local variables;
\* S is the pair of tables the call reads or writes.  Between two awaited
\* store calls the event loop can run the calls of other requests.
\* ------------------------------------------------------------------------
Proc(kind, email, password, accessToken, refreshToken) ==
  [kind |-> kind, email |-> email, password |-> password,
   accessToken |-> accessToken, refreshToken |-> refreshToken,
   pc |-> IF kind = "login" THEN "findByEmail" ELSE "isTokenBlacklisted",
   user |-> NoUser, resp |-> NoResponse]

Goto(p, pc, S) == [p |-> [p EXCEPT !.pc = pc], S |-> S]

Done(p, resp, S) == [p |-> [p EXCEPT !.pc = "done", !.resp = resp], S |-> S]

\* authenticate: the blacklist lookup and the verification, the user lookup
authenticateStep(p, S) ==
  IF p.pc = "isTokenBlacklisted"
  THEN IF isTokenBlacklisted(S.blacklist, p.accessToken)
       THEN Done(p, ErrorResponse(401, "TOKEN_BLACKLISTED"), S)
       ELSE LET v == verifyAccessToken(p.accessToken, now) IN
         IF v.err = "TokenExpiredError" THEN Done(p, ErrorResponse(401, "TOKEN_EXPIRED"), S)
         ELSE IF v.err # "none" THEN Done(p, ErrorResponse(401, "INVALID_TOKEN"), S)
         ELSE Goto(p, "findById", S)
  ELSE LET user == FindById(p.accessToken.userId) IN
    IF user = NoUser THEN Done(p, ErrorResponse(401, "USER_NOT_FOUND"), S)
    ELSE IF p.kind = "authenticate" THEN Done([p EXCEPT !.user = user], NoResponse, S)
    ELSE Goto([p EXCEPT !.user = user], "blacklistAccess", S)

loginStep(p, S) ==
  IF p.pc = "findByEmail"
  THEN LET user == FindByEmail(p.email) IN
    IF user = NoUser
      THEN Done(p, ErrorMessage(401, "INVALID_CREDENTIALS", "Invalid email or password"), S)
    ELSE IF ~verifyPassword(p.password, user.password)
      THEN Done(p, ErrorMessage(401, "INVALID_CREDENTIALS", "Invalid email or password"), S)
    ELSE Goto([p EXCEPT !.user = user], "createRefreshToken", S)
  ELSE
    LET tokenPayload == [userId |-> p.user.id, email |-> p.user.email]
        accessToken == generateAccessToken(tokenPayload, now)
        refreshToken == generateRefreshToken(tokenPayload, now)
        refreshTokenExpiration == getTokenExpiration(RefreshTTL, now)
    IN Done(p, [status |-> 200, code |-> "OK", message |-> "Login successful",
                accessToken |-> accessToken, refreshToken |-> refreshToken,
                expiresIn |-> decodeToken(accessToken).exp - now,
                user |-> formatUser(p.user)],
            [S EXCEPT !.ledger = createRefreshToken(@, p.user.id, refreshToken,
                                                    ToISOString(refreshTokenExpiration))])

logoutStep(p, S) ==
  IF p.pc \in {"isTokenBlacklisted", "findById"} THEN authenticateStep(p, S)
  ELSE IF p.pc = "blacklistAccess"
  THEN LET S1 == [S EXCEPT !.blacklist =
                    blacklistToken(@, p.accessToken,
                                   ToISOString(decodeToken(p.accessToken).exp))]
       IN IF ~Truthy(p.refreshToken) THEN Done(p, Success, S1)
          ELSE Goto(p, "findRefreshToken", S1)
  ELSE IF p.pc = "findRefreshToken"
  THEN LET refreshTokenData == findRefreshToken(S.ledger, p.refreshToken) IN
    IF refreshTokenData # NoRow /\ refreshTokenData.userId = p.user.id
    THEN Goto(p, "deleteRefreshToken", S)
    ELSE Done(p, Success, S)
  ELSE IF p.pc = "deleteRefreshToken"
  THEN LET S1 == [S EXCEPT !.ledger = deleteRefreshToken(@, p.refreshToken)] IN
    IF verifyRefreshToken(p.refreshToken, now).err # "none"
    THEN Done(p, Success, S1)
    ELSE Goto(p, "blacklistRefresh", S1)
  ELSE Done(p, Success,
            [S EXCEPT !.blacklist =
               blacklistToken(@, p.refreshToken,
                              ToISOString(verifyRefreshToken(p.refreshToken, now).payload.exp))])

\* variant: the blacklist and the ledger are consulted again at the end
refreshStep_rechecks(p, S) ==
  IF p.pc = "isTokenBlacklisted"
  THEN IF isTokenBlacklisted(S.blacklist, p.refreshToken)
       THEN Done(p, ErrorResponse(401, "TOKEN_BLACKLISTED"), S)
       ELSE Goto(p, "findRefreshToken", S)
  ELSE IF p.pc = "findRefreshToken"
  THEN IF findRefreshToken(S.ledger, p.refreshToken) = NoRow
       THEN Done(p, ErrorResponse(401, "INVALID_REFRESH_TOKEN"), S)
       ELSE LET v == verifyRefreshToken(p.refreshToken, now) IN
         IF v.err = "none" THEN Goto(p, "findById", S)
         ELSE IF v.err = "TokenExpiredError" THEN Goto(p, "deleteRefreshToken", S)
         ELSE Done(p, ErrorResponse(401, "INVALID_REFRESH_TOKEN"), S)
  ELSE IF p.pc = "findById"
  THEN LET user == FindById(p.refreshToken.userId) IN
    IF user = NoUser THEN Done(p, ErrorResponse(401, "USER_NOT_FOUND"), S)
    ELSE IF isTokenBlacklisted(S.blacklist, p.refreshToken)
      THEN Done(p, ErrorResponse(401, "TOKEN_BLACKLISTED"), S)
    ELSE IF findRefreshToken(S.ledger, p.refreshToken) = NoRow
      THEN Done(p, ErrorResponse(401, "INVALID_REFRESH_TOKEN"), S)
    ELSE LET newAccessToken ==
               generateAccessToken([userId |-> user.id, email |-> user.email], now)
         IN Done(p, [status |-> 200, code |-> "OK", message |-> "",
                     accessToken |-> newAccessToken, refreshToken |-> NoToken,
                     expiresIn |-> decodeToken(newAccessToken).exp - now,
                     user |-> NoReqUser], S)
  ELSE Done(p, ErrorResponse(401, "REFRESH_TOKEN_EXPIRED"),
            [S EXCEPT !.ledger = deleteRefreshToken(@, p.refreshToken)])

\* refreshAccessToken: the blacklist lookup, the ledger lookup and the
\* verification, then the user lookup or the deletion of the expired row
refreshStep(p, S) ==
  IF p.pc = "isTokenBlacklisted"
  THEN IF isTokenBlacklisted(S.blacklist, p.refreshToken)
       THEN Done(p, ErrorResponse(401, "TOKEN_BLACKLISTED"), S)
       ELSE Goto(p, "findRefreshToken", S)
  ELSE IF p.pc = "findRefreshToken"
  THEN IF findRefreshToken(S.ledger, p.refreshToken) = NoRow
       THEN Done(p, ErrorResponse(401, "INVALID_REFRESH_TOKEN"), S)
       ELSE LET v == verifyRefreshToken(p.refreshToken, now) IN
         IF v.err = "none" THEN Goto(p, "findById", S)
         ELSE IF v.err = "TokenExpiredError" THEN Goto(p, "deleteRefreshToken", S)
         ELSE Done(p, ErrorResponse(401, "INVALID_REFRESH_TOKEN"), S)
  ELSE IF p.pc = "findById"
  THEN LET user == FindById(p.refreshToken.userId) IN
    IF user = NoUser THEN Done(p, ErrorResponse(401, "USER_NOT_FOUND"), S)
    ELSE LET newAccessToken ==
               generateAccessToken([userId |-> user.id, email |-> user.email], now)
         IN Done(p, [status |-> 200, code |-> "OK", message |-> "",
                     accessToken |-> newAccessToken, refreshToken |-> NoToken,
                     expiresIn |-> decodeToken(newAccessToken).exp - now,
                     user |-> NoReqUser], S)
  ELSE Done(p, ErrorResponse(401, "REFRESH_TOKEN_EXPIRED"),
            [S EXCEPT !.ledger = deleteRefreshToken(@, p.refreshToken)])

\* the next store call of request p and what the handler does up to the
\* following one
StepProc(p, S) ==
  IF p.kind = "login" THEN loginStep(p, S)
  ELSE IF p.kind = "authenticate" THEN authenticateStep(p, S)
  ELSE IF p.kind = "logout" THEN logoutStep(p, S)
  ELSE refreshStep(p, S)

\* the request handled to its end without any other in between
RECURSIVE RunProc(_, _)
RunProc(p, S) ==
  IF p.pc = "done" THEN [p |-> p, S |-> S]
  ELSE LET n == StepProc(p, S) IN RunProc(n.p, n.S)

\* two requests arrive together
Begin(p1, p2) ==
  /\ last = Idle
  /\ procs = <<>>
  /\ procs' = <<p1, p2>>
  /\ base' = [ledger |-> ledger, blacklist |-> blacklist, running |-> 0, switches |-> 0]
  /\ UNCHANGED <<now, env, users, ledger, blacklist, issued, revoked, last, sweeper>>

\* the event loop runs the next store call of request i
ConcStep(i) ==
  /\ procs # <<>>
  /\ procs[i].pc # "done"
  /\ LET n == StepProc(procs[i], [ledger |-> ledger, blacklist |-> blacklist]) IN
     /\ procs' = [procs EXCEPT ![i] = n.p]
     /\ ledger' = n.S.ledger
     /\ blacklist' = n.S.blacklist
  /\ base' = [base EXCEPT !.running = i,
                          !.switches = IF base.running \in {0, i} \/ @ >= 2 THEN @ ELSE @ + 1]
  /\ UNCHANGED <<now, env, users, issued, revoked, last, sweeper>>

\* ------------------------------------------------------------------------
\* Changes of the deployment between two requests
\* ------------------------------------------------------------------------
\* the process is restarted with another signing secret in its environment
RotateSecret ==
  /\ last = Idle
  /\ users = SeedUsers
  /\ env = [JWT_SECRET |-> AccessSecret, JWT_REFRESH_SECRET |-> RefreshSecret]
  /\ \/ /\ env.JWT_SECRET = AccessSecret
        /\ env' = [env EXCEPT !.JWT_SECRET = RotatedAccessSecret]
     \/ /\ env.JWT_REFRESH_SECRET = RefreshSecret
        /\ env' = [env EXCEPT !.JWT_REFRESH_SECRET = RotatedRefreshSecret]
  /\ UNCHANGED <<now, users, ledger, blacklist, issued, revoked, last, server>>

\* a user row disappears from the users table
DropUser(id) ==
  /\ last = Idle
  /\ env = [JWT_SECRET |-> AccessSecret, JWT_REFRESH_SECRET |-> RefreshSecret]
  /\ users = SeedUsers
  /\ \E u \in users : u.id = id
  /\ users' = {u \in users : u.id # id}
  /\ UNCHANGED <<now, env, ledger, blacklist, issued, revoked, last, server>>

\* ------------------------------------------------------------------------
\* Specifications
\* ------------------------------------------------------------------------
DoLogin == \E email \in Emails, password \in Passwords, d \in Skews : Login(email, password, d, "none")

DoAuthenticate == \E h \in Headers : Authenticate(h, "none")

\* the bodies of the logout requests with header h; the body is read by
\* logout only, so requests that authenticate turns away are sent without
LogoutBodies(h) ==
  IF authenticate(h, "none").next
  THEN issued \cup {NoToken, MalformedToken}
  ELSE {NoToken}

DoLogout == \E h \in Headers : \E r \in LogoutBodies(h) : Logout(h, r, "none", "none")

DoRefresh == \E r \in Presentable, d \in Skews : Refresh(r, d, "none")

DoSweep == Sweep("none")

DoDropUser == DropUser("u1")

\* the service with a working store and a fixed deployment
Next ==
  \/ Tick
  \/ DoLogin
  \/ DoAuthenticate
  \/ DoLogout
  \/ DoRefresh
  \/ DoSweep
  \/ Deliver

Spec == Init /\ [][Next]_vars

\* one client of the service, across a restart with a rotated secret or the
\* removal of its user row
DoLoginOne ==
  \E password \in Passwords, d \in Skews : Login(EmailOf("u1"), password, d, "none")

NextEnv ==
  \/ Tick
  \/ DoLoginOne
  \/ DoAuthenticate
  \/ DoLogout
  \/ DoRefresh
  \/ DoSweep
  \/ Deliver
  \/ RotateSecret
  \/ DoDropUser

SpecEnv == Init /\ [][NextEnv]_vars

\* the store calls of each handler; one of them at most fails in a request
LoginFaults == {"none", "findByEmail", "createRefreshToken"}

AuthenticateFaults == {"none", "isTokenBlacklisted", "findById"}

LogoutFaults ==
  {"none", "blacklistAccess", "findRefreshToken", "deleteRefreshToken", "blacklistRefresh"}

RefreshFaults ==
  {"none", "isTokenBlacklisted", "findRefreshToken", "findById", "deleteRefreshToken"}

SweepFaults == {"none", "sweepBlacklist", "sweepLedger"}

\* the clock does not advance within a request here
DoLoginFault ==
  \E password \in Passwords, f \in LoginFaults :
    Login(EmailOf("u1"), password, 0, f)

\* requests that reach a store call: a Bearer header, a token in the body
FaultHeaders == {<<"Bearer", t>> : t \in issued \cup {MalformedToken}}

DoAuthenticateFault == \E h \in FaultHeaders, f \in AuthenticateFaults : Authenticate(h, f)

DoLogoutFault ==
  \E h \in FaultHeaders : \E r \in LogoutBodies(h) :
    \/ \E f \in LogoutFaults : Logout(h, r, "none", f)
    \/ \E fa \in AuthenticateFaults : Logout(h, r, fa, "none")

DoRefreshFault == \E r \in issued \cup {MalformedToken}, f \in RefreshFaults : Refresh(r, 0, f)

DoSweepFault == \E f \in SweepFaults : Sweep(f)

\* one client of the service over a store whose calls can fail
NextFault ==
  \/ Tick
  \/ DoLoginFault
  \/ DoAuthenticateFault
  \/ DoLogoutFault
  \/ DoRefreshFault
  \/ DoSweepFault
  \/ Deliver

SpecFault == Init /\ [][NextFault]_vars

\* a handler can be held up for several seconds between signing a token and
\* reading the clock again
Delays == 0..MaxDelay

DoLoginSlow == \E d \in Delays : Login(EmailOf("u1"), PasswordOf("u1"), d, "none")

DoRefreshSlow == \E r \in issued, d \in Delays : Refresh(r, d, "none")

\* one client, logging in and refreshing on a slow server
NextSlow ==
  \/ Tick
  \/ DoLoginSlow
  \/ DoRefreshSlow
  \/ Deliver

SpecSlow == Init /\ [][NextSlow]_vars

DoStartServer == \E f \in SweepFaults : StartServer(f)

DoTimerFire == \E f \in SweepFaults : TimerFire(f)

ServeLogin == Serving /\ Login(EmailOf("u1"), PasswordOf("u1"), 0, "none")

ServeLogout == Serving /\ \E t \in issued : Logout(<<"Bearer", t>>, NoToken, "none", "none")

\* the server from its start, with its cleanup timer, over a store whose
\* cleanup statements can fail
NextTimer ==
  \/ TickTimer
  \/ DoStartServer
  \/ DoTimerFire
  \/ ServeLogin
  \/ ServeLogout
  \/ Deliver

\* the event loop runs a due timer and delivers a response; time passes
FairTimer ==
  /\ SF_vars(TickTimer)
  /\ SF_vars(DoStartServer)
  /\ SF_vars(DoTimerFire)
  /\ WF_vars(Deliver)

SpecTimer == Init /\ [][NextTimer]_vars /\ FairTimer

\* the store fails in a bounded number of cleanup runs and works from then on
StoreMayFail(f) == f = "none" \/ sweeper.failures < MaxFailures

DoStartServerRecovering == \E f \in SweepFaults : StoreMayFail(f) /\ StartServer(f)

DoTimerFireRecovering == \E f \in SweepFaults : StoreMayFail(f) /\ TimerFire(f)

\* the server with its cleanup timer and clients that log in and out, over
\* a store that eventually stops failing
NextRecovering ==
  \/ TickTimer
  \/ DoStartServerRecovering
  \/ DoTimerFireRecovering
  \/ ServeLogin
  \/ ServeLogout
  \/ Deliver

\* the event loop runs a due timer and delivers a response; time passes
FairRecovering ==
  /\ SF_vars(TickTimer)
  /\ SF_vars(DoStartServerRecovering)
  /\ SF_vars(DoTimerFireRecovering)
  /\ WF_vars(Deliver)

SpecRecovering == Init /\ [][NextRecovering]_vars /\ FairRecovering

\* the value a payload gives to a key
NewValue(k) ==
  IF k = "password" THEN <<"plain", "NewPassword1">>
  ELSE IF k = "createdAt" THEN [date |-> MaxTime, sep |-> " ", time |-> 0]
  ELSE "New"

PayloadKeys ==
  {{}, {"firstName"}, {"phoneNumber", "profilePicture"},
   {"firstName", "email", "password", "invalidField"}, {"id", "createdAt"}}

Payloads == {[k \in K |-> NewValue(k)] : K \in PayloadKeys}

DoLoginPlain == \E id \in UserIds : Login(EmailOf(id), PasswordOf(id), 0, "none")

DoGetProfile == \E t \in issued : GetProfile(<<"Bearer", t>>, "none", "none")

DoUpdateProfile ==
  \E t \in issued, updateData \in Payloads :
    UpdateProfile(<<"Bearer", t>>, updateData, "none", "none")

\* the profile routes, for clients that have logged in
NextProfile ==
  \/ Tick
  \/ DoLoginPlain
  \/ DoGetProfile
  \/ DoUpdateProfile
  \/ Deliver

SpecProfile == Init /\ [][NextProfile]_vars

\* the payloads of direct calls: empty, the one of the unit test with an
\* undefined and a null value, undefined alone, null alone, no allowed key
UpdateInputs ==
  {<<>>,
   [firstName |-> "New", lastName |-> Undefined, phoneNumber |-> Null],
   [lastName |-> Undefined],
   [phoneNumber |-> Null],
   [email |-> "New", lastName |-> Undefined]}

DoCallUpdate == \E id \in {"u2", "u9"}, updateData \in UpdateInputs : CallUpdate(id, updateData)

DoLoginFirst == Login(EmailOf("u1"), PasswordOf("u1"), 0, "none")

\* bodies that pass the validation: the empty one, allowed keys, other keys
Bodies == {<<>>, [firstName |-> "New"], [email |-> "New"]}

DoUpdateProfileBody ==
  \E t \in issued, updateData \in Bodies :
    UpdateProfile(<<"Bearer", t>>, updateData, "none", "none")

DoUpdateProfileGone ==
  \E t \in issued, updateData \in Bodies : UpdateProfileGone(<<"Bearer", t>>, updateData)

\* User.update, called directly and through PUT /api/user/profile
NextUpdate ==
  \/ Tick
  \/ DoLoginFirst
  \/ DoCallUpdate
  \/ DoUpdateProfileBody
  \/ DoUpdateProfileGone
  \/ Deliver

SpecUpdate == Init /\ [][NextUpdate]_vars

\* the requests that can arrive now: a login, or a request with tokens the
\* clients hold
Arrivals ==
  {Proc("login", EmailOf(id), PasswordOf(id), NoToken, NoToken) : id \in UserIds}
    \cup {Proc("authenticate", "none", "none", a, NoToken) :
            a \in {t \in issued : IsAccessToken(t)}}
    \cup {Proc("refresh", "none", "none", NoToken, r) :
            r \in {t \in issued : IsRefreshToken(t)}}
    \cup {Proc("logout", "none", "none", a, r) :
            a \in {t \in issued : IsAccessToken(t)},
            r \in {t \in issued : IsRefreshToken(t)} \cup {NoToken}}

KindRank(kind) ==
  IF kind = "login" THEN 1 ELSE IF kind = "authenticate" THEN 2
  ELSE IF kind = "refresh" THEN 3 ELSE 4

\* two requests arrive together; which of them is called the first is
\* immaterial, so the kinds are taken in one order
DoBegin ==
  \E p1 \in Arrivals, p2 \in Arrivals :
    KindRank(p1.kind) <= KindRank(p2.kind) /\ Begin(p1, p2)

DoConcStep == \E i \in {1, 2} : ConcStep(i)

\* the sessions are set up by requests handled one at a time
SetupTick == procs = <<>> /\ Tick

SetupLogin == procs = <<>> /\ DoLoginPlain

SetupDeliver == procs = <<>> /\ Deliver

\* two requests handled concurrently, after a history of logins
NextConc ==
  \/ SetupTick
  \/ SetupLogin
  \/ SetupDeliver
  \/ DoBegin
  \/ DoConcStep

SpecConc == Init /\ [][NextConc]_vars

\* ------------------------------------------------------------------------
\* Properties
\* ------------------------------------------------------------------------
Bearer(t) == <<"Bearer", t>>

\* what authenticate answers to the token now
AuthNow(t) == authenticate(Bearer(t), "none")

\* what refresh answers to the token now
RefreshNow(t) == refreshAccessToken(t, 0, "none").resp

HasLedgerRow(t) == \E r \in Rows(ledger) : r.token = t

OwnsLedgerRow(uid, t) == \E r \in Rows(ledger) : r.token = t /\ r.userId = uid

Blacklisted(t) == \E r \in Rows(blacklist) : r.token = t

LoginSucceeded == last.op = "login" /\ last.resp.status = 200

LogoutSucceeded == last.op = "logout" /\ last.auth.next /\ last.resp.status = 200

RefreshSucceeded == last.op = "refresh" /\ last.resp.status = 200

\* C1 -- Round trip: right after a successful login of user U, authenticate
\* admits the returned access token, with req.user the stored record of U
\* less its password and req.token the returned token.
C1_RoundTrip ==
  LoginSucceeded =>
    LET a == AuthNow(last.resp.accessToken) IN
    /\ a.next
    /\ a.token = last.resp.accessToken
    /\ \E u \in users :
         /\ u.email = last.email
         /\ a.user = [f \in DOMAIN u \ {"password"} |-> u[f]]

\* C2 (as claimed) -- once a logout has succeeded with access token A,
\* authenticate answers TOKEN_BLACKLISTED to A in every later state.
C2_AlwaysBlacklisted ==
  \A t \in revoked : IsAccessToken(t) => AuthNow(t).code = "TOKEN_BLACKLISTED"

\* C2 -- once a logout has succeeded with access token A, authenticate never
\* admits A again and never answers INVALID_TOKEN: it answers
\* TOKEN_BLACKLISTED as long as A's blacklist row is in the table, which is
\* at least until A expires, and TOKEN_EXPIRED after the sweeper removed it.
C2_RevokedStaysRejected ==
  \A t \in revoked : IsAccessToken(t) =>
    LET a == AuthNow(t) IN
    /\ ~a.next
    /\ a.code \in {"TOKEN_BLACKLISTED", "TOKEN_EXPIRED"}
    /\ (now < t.exp \/ Blacklisted(t)) => a.code = "TOKEN_BLACKLISTED"

C2_Witness ==
  /\ last.op = "authenticate"
  /\ StartsWithBearer(last.header)
  /\ last.header[2] \in revoked
  /\ last.auth.code = "TOKEN_BLACKLISTED"
  /\ verifyAccessToken(last.header[2], now).err = "none"

\* C3 -- a logout by user U with a refresh token R of the body that has a
\* ledger row of U and still verifies leaves R without ledger row and with a
\* blacklist row, so that refresh answers TOKEN_BLACKLISTED to R right after
\* it; and refresh keeps answering TOKEN_BLACKLISTED to R until R expires.
C3_LogoutRevokesRefresh ==
  [][/\ \A t \in Presentable :
          ( /\ last'.op = "logout" /\ last'.auth.next /\ last'.resp.status = 200
            /\ last'.refreshToken = t
            /\ OwnsLedgerRow(last'.auth.user.id, t)
            /\ t.key = env.JWT_REFRESH_SECRET
            /\ now < t.exp )
          => /\ ~HasLedgerRow(t)'
             /\ Blacklisted(t)'
             /\ RefreshNow(t)'.code = "TOKEN_BLACKLISTED"
     /\ \A t \in issued :
          (t.key = env.JWT_REFRESH_SECRET /\ RefreshNow(t).code = "TOKEN_BLACKLISTED"
             /\ now' < t.exp)
          => RefreshNow(t)'.code = "TOKEN_BLACKLISTED"
    ]_vars

C3_Witness ==
  /\ last.op = "refresh"
  /\ last.resp.code = "TOKEN_BLACKLISTED"
  /\ last.refreshToken \in revoked
  /\ verifyRefreshToken(last.refreshToken, now).err = "none"

\* C4 -- a logout by user U whose body names a refresh token without a
\* ledger row of U (a row of another user, or no row) changes no ledger row,
\* adds the one blacklist row of U's access token and nothing else, and
\* answers the same success in both cases.
C4_OwnershipIsolation ==
  [][( /\ last'.op = "logout" /\ last'.auth.next
       /\ Truthy(last'.refreshToken)
       /\ ~OwnsLedgerRow(last'.auth.user.id, last'.refreshToken) )
     => /\ ledger' = ledger
        /\ blacklist' = blacklist (+) SetToBag({[token |-> last'.auth.token,
                                                 expiresAt |-> ToISOString(last'.auth.token.exp)]})
        /\ last'.resp = ErrorResponse(200, "OK")
    ]_vars

C4_Witness ==
  /\ LogoutSucceeded
  /\ \E r \in Rows(ledger) :
       r.token = last.refreshToken /\ r.userId # last.auth.user.id
  /\ ~Blacklisted(last.refreshToken)
  /\ Blacklisted(last.auth.token)

\* C5 -- refresh with a token that is not blacklisted, has a ledger row and
\* fails verification because it has expired answers REFRESH_TOKEN_EXPIRED
\* and leaves no ledger row of that token.
C5_ExpiredRefreshCleanup ==
  [][\A t \in Presentable :
       ( /\ last'.op = "refresh"
         /\ last'.refreshToken = t
         /\ ~Blacklisted(t)
         /\ HasLedgerRow(t)
         /\ t.key = env.JWT_REFRESH_SECRET
         /\ now >= t.exp )
       => /\ last'.resp.status = 401
          /\ last'.resp.code = "REFRESH_TOKEN_EXPIRED"
          /\ ~HasLedgerRow(t)'
    ]_vars

C5_Witness ==
  /\ last.op = "refresh"
  /\ last.resp.code = "REFRESH_TOKEN_EXPIRED"
  /\ ~HasLedgerRow(last.refreshToken)

\* C6 -- refresh does not consume its token: the state right after a
\* successful refresh(R) is one in which refresh(R) succeeds again, and a
\* token R to which refresh succeeds keeps succeeding across every step, for
\* as long as R has not expired and no logout of its owner has named R.
C6_RefreshNonRotation ==
  [][\A t \in issued :
       /\ ( /\ last'.op = "refresh" /\ last'.resp.status = 200
            /\ last'.refreshToken = t /\ now' < t.exp )
          => RefreshNow(t)'.status = 200
       /\ ( RefreshNow(t).status = 200 /\ now' < t.exp /\ t \notin revoked' )
          => RefreshNow(t)'.status = 200
    ]_vars

\* the second success of refresh(R): the client already holds an access
\* token that only an earlier refresh(R) can have minted (of R's user, minted
\* in a second in which that user did not log in, R being the only refresh
\* token of that user ever handed out)
C6_Witness ==
  /\ RefreshSucceeded
  /\ \E a \in issued :
       /\ IsAccessToken(a)
       /\ a.userId = last.refreshToken.userId
       /\ a # last.resp.accessToken
       /\ \A r \in issued :
            (IsRefreshToken(r) /\ r.userId = a.userId)
              => (r = last.refreshToken /\ r.iat # a.iat)

\* C7 -- a successful refresh adds no ledger row, deletes no ledger row and
\* adds no blacklist row.
C7_RefreshFrame ==
  [][(last'.op = "refresh" /\ last'.resp.status = 200)
       => (ledger' = ledger /\ blacklist' = blacklist)]_vars

C7_Witness ==
  /\ RefreshSucceeded
  /\ HasLedgerRow(last.refreshToken)
  /\ ~Blacklisted(last.refreshToken)
  /\ IsAccessToken(last.resp.accessToken)

C9_RefreshOrder ==
  [][\A t \in Presentable :
       (last'.op = "refresh" /\ last'.refreshToken = t) =>
         LET listed == \E r \in Rows(blacklist) : r.token = t
             stored == \E r \in Rows(ledger) : r.token = t
             signed == t.key = env.JWT_REFRESH_SECRET
             expired == now >= t.exp
             known == \E u \in users : u.id = t.userId
             pass == ~listed /\ stored /\ signed /\ ~expired /\ known
         IN
         /\ (last'.resp.code = "TOKEN_BLACKLISTED") <=> listed
         /\ (last'.resp.code = "INVALID_REFRESH_TOKEN")
              <=> (~listed /\ (~stored \/ ~signed))
         /\ (last'.resp.code = "REFRESH_TOKEN_EXPIRED")
              <=> (~listed /\ stored /\ signed /\ expired)
         /\ (last'.resp.code = "USER_NOT_FOUND")
              <=> (~listed /\ stored /\ signed /\ ~expired /\ ~known)
         /\ (last'.resp.status = 200) <=> pass
         /\ (last'.resp.accessToken # NoToken) <=> pass
         /\ ~pass => last'.resp.status = 401
    ]_vars

\* the last check failing: a stored, well-signed, unexpired token of a user
\* without row
C9_Witness ==
  /\ last.op = "refresh"
  /\ last.resp.code = "USER_NOT_FOUND"
  /\ HasLedgerRow(last.refreshToken)
  /\ verifyRefreshToken(last.refreshToken, now).err = "none"

\* C10 -- when refresh rejects a token that has a ledger row because its
\* verification fails for another reason than expiry, the ledger and the
\* blacklist are left as they were.
C10_InvalidRefreshFrame ==
  [][\A t \in Presentable :
       ( /\ last'.op = "refresh" /\ last'.refreshToken = t
         /\ ~Blacklisted(t)
         /\ HasLedgerRow(t)
         /\ t.key # env.JWT_REFRESH_SECRET )
       => /\ last'.resp.code = "INVALID_REFRESH_TOKEN"
          /\ ledger' = ledger
          /\ blacklist' = blacklist
    ]_vars

C10_Witness ==
  /\ last.op = "refresh"
  /\ last.resp.code = "INVALID_REFRESH_TOKEN"
  /\ HasLedgerRow(last.refreshToken)

\* C11 -- Ledger uniqueness: in every reachable state the refresh_tokens
\* table holds at most one row for each token value.
C11_LedgerUnique ==
  \A r1 \in Rows(ledger) :
    /\ ledger[r1] = 1
    /\ \A r2 \in Rows(ledger) : r1.token = r2.token => r1 = r2

\* C12 -- every ledger row has expiresAt equal to the exp claim of the
\* refresh token stored in it.
C12_StoredExpiry ==
  \A r \in Rows(ledger) : r.expiresAt = ToISOString(r.token.exp)

\* C13 -- a successful login adds exactly one row to the ledger, the row of
\* the returned refresh token for the user who logged in, keeps every row
\* that was there, leaves the blacklist as it was, and every refresh token
\* to which refresh succeeded before the login still succeeds after it.
C13_LoginFrame ==
  [][(last'.op = "login" /\ last'.resp.status = 200) =>
       /\ \E r \in Rows(ledger') :
            /\ r.token = last'.resp.refreshToken
            /\ r.userId = last'.resp.user.id
            /\ ledger' = ledger (+) SetToBag({r})
       /\ blacklist' = blacklist
       /\ \A t \in issued :
            (RefreshNow(t).status = 200 /\ now' < t.exp)
              => RefreshNow(t)'.status = 200
    ]_vars

\* the second session of a user: the row of the earlier one is still there
\* and refresh succeeds with its token
C13_Witness ==
  /\ LoginSucceeded
  /\ \E r \in Rows(ledger) :
       /\ r.userId = last.resp.user.id
       /\ r.token # last.resp.refreshToken
       /\ r.token \in issued
       /\ RefreshNow(r.token).status = 200

\* C14 -- login is atomic with respect to persistence: a login with valid
\* credentials whose ledger write fails answers 500 INTERNAL_ERROR without
\* access or refresh token and leaves both tables as they were; and a login
\* that returns a token pair has written the ledger row of its refresh token.
C14_LoginAtomic ==
  [][last'.op = "login" =>
       /\ ( /\ last'.fault = "createRefreshToken"
            /\ \E u \in users : /\ u.email = last'.email
                                /\ verifyPassword(last'.password, u.password) )
          => /\ last'.resp = InternalError
             /\ last'.resp.accessToken = NoToken
             /\ last'.resp.refreshToken = NoToken
             /\ ledger' = ledger
             /\ blacklist' = blacklist
       /\ (last'.resp.accessToken # NoToken \/ last'.resp.refreshToken # NoToken)
          => /\ last'.resp.status = 200
             /\ \E r \in Rows(ledger') :
                  /\ r.token = last'.resp.refreshToken
                  /\ r.userId = last'.resp.user.id
                  /\ ledger' = ledger (+) SetToBag({r})
    ]_vars

\* a login with valid credentials that failed on its ledger write
C14_Witness ==
  /\ last.op = "login"
  /\ last.fault = "createRefreshToken"
  /\ verifyPassword(last.password, FindByEmail(last.email).password)
  /\ last.resp.code = "INTERNAL_ERROR"

\* C15 -- a login with an unknown email and a login with a known email and
\* a wrong password get the same response, 401 INVALID_CREDENTIALS 'Invalid
\* email or password' without any token, and neither changes the ledger or
\* the blacklist.
C15_SameRejection ==
  [][( /\ last'.op = "login" /\ last'.fault = "none"
       /\ \/ ~\E u \in users : u.email = last'.email
          \/ \E u \in users : /\ u.email = last'.email
                              /\ ~verifyPassword(last'.password, u.password) )
     => /\ last'.resp = [status |-> 401, code |-> "INVALID_CREDENTIALS",
                         message |-> "Invalid email or password",
                         accessToken |-> NoToken, refreshToken |-> NoToken,
                         expiresIn |-> 0, user |-> NoReqUser]
        /\ ledger' = ledger
        /\ blacklist' = blacklist
    ]_vars

\* an unknown email turned away while sessions exist
C15_Witness ==
  /\ last.op = "login"
  /\ ~\E u \in users : u.email = last.email
  /\ last.resp.code = "INVALID_CREDENTIALS"
  /\ RowCount(ledger) > 0

\* the blacklist row logout writes for the access token of the request
AccessRow(l) == [token |-> l.auth.token, expiresAt |-> ToISOString(l.auth.token.exp)]

\* C16 -- no partial logout: a logout that has written the blacklist row of
\* its access token answers with success, whatever happens in the step for
\* the refresh token of the body.
C16_NoPartialLogout ==
  [][( /\ last'.op = "logout" /\ last'.auth.next
       /\ CopiesIn(AccessRow(last'), blacklist') > CopiesIn(AccessRow(last'), blacklist) )
     => last'.resp = Success
    ]_vars

\* C17 -- a logout whose body names a refresh token that has a ledger row of
\* the caller and no longer verifies (expired, or not signed with the
\* current secret) deletes the rows of that token, adds to the blacklist the
\* row of the access token and none for the refresh token, and answers with
\* success.
C17_LogoutUnverifiable ==
  [][\A t \in Presentable :
       ( /\ last'.op = "logout" /\ last'.auth.next /\ last'.fault = "none"
         /\ last'.refreshToken = t
         /\ OwnsLedgerRow(last'.auth.user.id, t)
         /\ verifyRefreshToken(t, now).err # "none" )
       => /\ ~HasLedgerRow(t)'
          /\ blacklist' = blacklist (+) SetToBag({AccessRow(last')})
          /\ last'.resp = Success
    ]_vars

C17_Witness ==
  /\ LogoutSucceeded
  /\ last.owned
  /\ verifyRefreshToken(last.refreshToken, now).err # "none"
  /\ ~HasLedgerRow(last.refreshToken)
  /\ ~Blacklisted(last.refreshToken)
  /\ Blacklisted(last.auth.token)

C19_AuthStoreFailure ==
  last.op = "authenticate" =>
    LET h == last.header
        t == h[2]
        reached ==
          /\ StartsWithBearer(h)
          /\ \/ last.fault = "isTokenBlacklisted"
             \/ /\ last.fault = "findById"
                /\ ~Blacklisted(t)
                /\ verifyAccessToken(t, now).err = "none"
    IN reached => /\ last.auth.status = 500
                  /\ last.auth.code = "INTERNAL_ERROR"
                  /\ ~last.auth.next

\* C20 -- in refresh a failure of the store, at the blacklist lookup, the
\* ledger lookup, the user lookup or the deletion of the expired row, is
\* answered with 500 INTERNAL_ERROR and no access token.
C20_RefreshStoreFailure ==
  [][\A t \in Presentable :
       LET v == verifyRefreshToken(t, now)
           reached ==
             \/ last'.fault = "isTokenBlacklisted"
             \/ last'.fault = "findRefreshToken" /\ ~Blacklisted(t)
             \/ /\ last'.fault = "findById"
                /\ ~Blacklisted(t) /\ HasLedgerRow(t) /\ v.err = "none"
             \/ /\ last'.fault = "deleteRefreshToken"
                /\ ~Blacklisted(t) /\ HasLedgerRow(t) /\ v.err = "TokenExpiredError"
       IN
       (last'.op = "refresh" /\ last'.refreshToken = t /\ reached)
         => /\ last'.resp.status = 500
            /\ last'.resp.code = "INTERNAL_ERROR"
            /\ last'.resp.accessToken = NoToken
    ]_vars

\* C21 (as claimed) -- in logout a failure of any of its store calls
\* (blacklisting the access token, looking up or deleting the ledger row,
\* blacklisting the refresh token) is answered with 500 INTERNAL_ERROR, and
\* when the first write fails neither table has changed.
C21_LogoutStoreFailure ==
  [][\A t \in Presentable \cup {NoToken} :
       LET owned == OwnsLedgerRow(last'.auth.user.id, t)
           reached ==
             \/ last'.fault = "blacklistAccess"
             \/ last'.fault = "findRefreshToken" /\ Truthy(t)
             \/ last'.fault = "deleteRefreshToken" /\ owned
             \/ /\ last'.fault = "blacklistRefresh" /\ owned
                /\ verifyRefreshToken(t, now).err = "none"
       IN
       ( /\ last'.op = "logout" /\ last'.auth.next
         /\ last'.refreshToken = t /\ reached )
       => /\ last'.resp.status = 500
          /\ last'.resp.code = "INTERNAL_ERROR"
          /\ last'.fault = "blacklistAccess"
               => (ledger' = ledger /\ blacklist' = blacklist)
    ]_vars

\* C22 (as claimed) -- authenticate answers 401 UNAUTHORIZED, without calling
\* next(), to the header 'Bearer ' whose token is the empty string.
C22_EmptyBearer ==
  (last.op = "authenticate" /\ last.header = <<"Bearer", EmptyToken>>) =>
    /\ last.auth.status = 401
    /\ last.auth.code = "UNAUTHORIZED"
    /\ ~last.auth.next

\* the instant a stored timestamp denotes, in seconds
Instant(ts) == ts.date * SecondsPerDay + ts.time

\* C23 (as claimed) -- right after a sweeper run that completed without error
\* at time t, no blacklist row and no ledger row has an expiresAt earlier
\* than t, the rows that expired earlier on the day of t included.
C23_SweepRemovesExpired ==
  (last.op = "sweep" /\ last.resp.status = 200) =>
    /\ \A r \in Rows(blacklist) : ~(Instant(r.expiresAt) < now)
    /\ \A r \in Rows(ledger) : ~(Instant(r.expiresAt) < now)

\* C24 -- idempotent sweep: in the state a successful sweeper run leaves, a
\* second run at once completes without error and deletes no row of either
\* table.
C24_SweepIdempotent ==
  (last.op = "sweep" /\ last.resp.status = 200) =>
    LET o == cleanupExpiredTokens("none") IN
    /\ o.resp.status = 200
    /\ o.ledger = ledger
    /\ o.blacklist = blacklist

\* a run that found rows to delete and rows to keep: the blacklist row of a
\* revoked access token is gone, another row is still there
C24_Witness ==
  /\ last.op = "sweep"
  /\ last.resp.status = 200
  /\ \E t \in revoked : IsAccessToken(t) /\ ~Blacklisted(t)
  /\ RowCount(blacklist) > 0

\* C26 (as claimed) -- a refresh token presented as bearer token is rejected
\* by authenticate as INVALID_TOKEN, and an access token presented to refresh
\* yields no access token.
C26_AlwaysInvalidToken ==
  \A t \in issued :
    /\ IsRefreshToken(t) => (~AuthNow(t).next /\ AuthNow(t).code = "INVALID_TOKEN")
    /\ IsAccessToken(t) => RefreshNow(t).accessToken = NoToken

\* C26 -- token-type separation, the two secrets being different: a refresh
\* token presented as bearer token is never admitted by authenticate, which
\* answers INVALID_TOKEN, or TOKEN_BLACKLISTED when a logout has blacklisted
\* the refresh token; an access token presented to refresh never yields an
\* access token.
C26_TypeSeparation ==
  env.JWT_SECRET # env.JWT_REFRESH_SECRET =>
    \A t \in issued :
      /\ IsRefreshToken(t) =>
           /\ ~AuthNow(t).next
           /\ AuthNow(t).code = IF Blacklisted(t) THEN "TOKEN_BLACKLISTED"
                                ELSE "INVALID_TOKEN"
      /\ IsAccessToken(t) =>
           /\ RefreshNow(t).status # 200
           /\ RefreshNow(t).accessToken = NoToken

\* a refresh token that refresh accepts, sent as bearer token and rejected
C26_Witness ==
  /\ last.op = "authenticate"
  /\ StartsWithBearer(last.header)
  /\ IsRefreshToken(last.header[2])
  /\ RefreshNow(last.header[2]).status = 200
  /\ last.auth.code = "INVALID_TOKEN"

\* C27 -- the password hash is in no response and not in req.user: a user
\* object in the response of login, of GET profile or of PUT profile, or
\* left in req.user by authenticate, has no password field; the user of a
\* response is the stored record without its password field.
C27_NoPasswordOutward ==
  /\ "password" \notin DOMAIN last.resp.user
  /\ "password" \notin DOMAIN last.auth.user
  /\ (last.op \in {"login", "getProfile", "updateProfile"} /\ last.resp.status = 200)
       => \E u \in users :
            last.resp.user = [c \in DOMAIN u \ {"password"} |-> u[c]]

\* the response of a profile update that changed the record
C27_Witness ==
  /\ last.op = "updateProfile"
  /\ last.resp.status = 200
  /\ last.auth.user.firstName = "First"
  /\ last.resp.user.firstName = NewValue("firstName")

\* C28 -- a profile update changes, in the record of the caller only, the
\* fields firstName, lastName, phoneNumber, dateOfBirth and profilePicture
\* that its payload names, and updatedAt: id, email, password hash and
\* createdAt of every record are as before, keys outside the allowed list
\* have no effect, and the records of the other users are as before.
C28_UpdateFrame ==
  [][last'.op = "updateProfile" =>
       /\ Cardinality(users') = Cardinality(users)
       /\ \A u \in users : \E v \in users' :
            /\ DOMAIN v = DOMAIN u
            /\ \A c \in DOMAIN u \ (AllowedFields \cup {"updatedAt"}) : v[c] = u[c]
            /\ \A c \in AllowedFields :
                 v[c] = IF /\ last'.auth.next /\ u.id = last'.auth.user.id
                           /\ c \in DOMAIN last'.body
                        THEN last'.body[c] ELSE u[c]
            /\ (~last'.auth.next \/ u.id # last'.auth.user.id) => v = u
    ]_vars

\* a payload with an allowed key and with keys outside the list
C28_Witness ==
  /\ last.op = "updateProfile"
  /\ last.resp.status = 200
  /\ {"firstName", "email", "password"} \subseteq DOMAIN last.body
  /\ last.resp.user.firstName = last.body.firstName
  /\ last.resp.user.email # last.body.email
  /\ \E u \in users : u.id # last.auth.user.id

\* C29 (as claimed) -- expiresIn of a successful login or refresh is the exp
\* claim of the new access token minus the current time, is at most the
\* configured duration and is that duration or one second less.
C29_AtMostOneSecondLess ==
  (LoginSucceeded \/ RefreshSucceeded) =>
    /\ last.resp.expiresIn = last.resp.accessToken.exp - now
    /\ last.resp.expiresIn <= AccessTTL
    /\ last.resp.expiresIn \in {AccessTTL, AccessTTL - 1}

\* C29 -- expiresIn of a successful login and of a successful refresh is
\* computed the same way, as the exp claim of the new access token minus the
\* clock reading at the end of the handler: it is never greater than the
\* configured duration of an access token, and it is that duration less the
\* whole seconds by which the clock advanced since the token was signed.
C29_ExpiresIn ==
  (LoginSucceeded \/ RefreshSucceeded) =>
    /\ last.resp.expiresIn = last.resp.accessToken.exp - now
    /\ last.resp.expiresIn <= AccessTTL
    /\ last.resp.expiresIn = AccessTTL - (now - last.resp.accessToken.iat)

\* a refresh during which the clock advanced by one second
C29_Witness ==
  /\ RefreshSucceeded
  /\ now = last.resp.accessToken.iat + 1
  /\ last.resp.expiresIn = AccessTTL - 1

\* a failed cleanup run has just ended, the next firing of the timer being
\* at second k
SweepFailedDue(k) ==
  last.op = "sweep" /\ last.resp.status = 500 /\ sweeper.due = k

\* C25 -- a sweeper failure is never fatal: the sweeper runs once at the
\* start of the server; after a cleanup run that failed the process is up
\* and the interval timer set; and a failed run is followed by another run
\* at the next firing of the timer.
C25_SweeperRetries ==
  /\ [][(~sweeper.armed /\ sweeper'.armed)
          => (last'.op = "sweep" /\ now' = now /\ sweeper'.runs = 1)]_vars
  /\ []((last.op = "sweep" /\ last.resp.status = 500)
          => (sweeper.up /\ sweeper.armed))
  /\ \A k \in 1..MaxTime :
       SweepFailedDue(k) ~> (last.op = "sweep" /\ now = k /\ sweeper.due > k)

\* a run that succeeded after an earlier run had failed
C25_Witness ==
  /\ last.op = "sweep"
  /\ last.resp.status = 200
  /\ sweeper.failures >= 1
  /\ sweeper.runs >= 2

\* the token values a request involves: those it presents and those it signs
Involved(p) ==
  ({p.accessToken, p.refreshToken} \ {NoToken})
    \cup (IF p.kind = "login"
          THEN LET u == FindByEmail(p.email)
                   tokenPayload == [userId |-> u.id, email |-> u.email]
               IN {generateAccessToken(tokenPayload, now),
                   generateRefreshToken(tokenPayload, now)}
          ELSE IF p.kind = "refresh"
          THEN LET u == FindById(p.refreshToken.userId) IN
               {generateAccessToken([userId |-> u.id, email |-> u.email], now)}
          ELSE {})

\* the two responses and the tables when p is handled to its end, then q
Sequential(p, q, S) ==
  LET a == RunProc(p, S)
      b == RunProc(q, a.S)
  IN [first |-> a.p.resp, second |-> b.p.resp, S |-> b.S]

ConcDone == procs # <<>> /\ procs[1].pc = "done" /\ procs[2].pc = "done"

\* C30 -- two requests (login, refresh, logout, authenticate) that involve
\* disjoint token values and whose store calls are interleaved in any way
\* end with the responses and the tables of one of the two sequential
\* executions of the two requests.
C30_DisjointSerializable ==
  (ConcDone /\ Involved(procs[1]) \cap Involved(procs[2]) = {}) =>
    LET S0 == [ledger |-> base.ledger, blacklist |-> base.blacklist]
        p1 == Proc(procs[1].kind, procs[1].email, procs[1].password,
                   procs[1].accessToken, procs[1].refreshToken)
        p2 == Proc(procs[2].kind, procs[2].email, procs[2].password,
                   procs[2].accessToken, procs[2].refreshToken)
        end == [first |-> procs[1].resp, second |-> procs[2].resp,
                S |-> [ledger |-> ledger, blacklist |-> blacklist]]
        s12 == Sequential(p1, p2, S0)
        s21 == Sequential(p2, p1, S0)
    IN \/ end = s12
       \/ end = [first |-> s21.second, second |-> s21.first, S |-> s21.S]

\* two logouts of two sessions, each with its refresh token, handled in
\* turns and both through to the blacklisting of the refresh token
C30_Witness ==
  /\ ConcDone
  /\ Involved(procs[1]) \cap Involved(procs[2]) = {}
  /\ base.switches >= 2
  /\ procs[1].kind = "logout" /\ procs[2].kind = "logout"
  /\ Blacklisted(procs[1].refreshToken) /\ Blacklisted(procs[2].refreshToken)
  /\ procs[1].refreshToken.userId = procs[2].refreshToken.userId

\* C31 -- the same-token race: a refresh(R) that has passed its blacklist
\* and ledger checks answers 200 with a new access token at its last store
\* call also when, in between, a logout of R's owner has deleted R's ledger
\* row and blacklisted R and has completed; so there is an interleaving in
\* which both calls succeed and the refresh returns after the logout.
C31_SameTokenRace ==
  [][\A i \in {1, 2} :
       ( /\ procs # <<>> /\ procs' # <<>>
         /\ procs[i].kind = "refresh"
         /\ procs[i].pc = "findById"
         /\ procs'[i].pc = "done"
         /\ procs[3 - i].kind = "logout"
         /\ procs[3 - i].refreshToken = procs[i].refreshToken
         /\ procs[3 - i].pc = "done"
         /\ procs[3 - i].resp.status = 200 )
       => /\ procs'[i].resp.status = 200
          /\ IsAccessToken(procs'[i].resp.accessToken)
          /\ procs'[i].resp.accessToken.userId = procs[i].refreshToken.userId
          /\ procs'[i].resp.accessToken.exp > now
    ]_vars

\* the race has happened: the logout of R's owner ended with 200, R has no
\* ledger row and is blacklisted, and the refresh of R, whose last store
\* call came after all of that, ended with 200 and an access token
C31_Witness ==
  /\ ConcDone
  /\ procs[1].kind = "refresh" /\ procs[2].kind = "logout"
  /\ procs[1].refreshToken = procs[2].refreshToken
  /\ procs[2].user.id = procs[2].refreshToken.userId
  /\ procs[2].resp.status = 200
  /\ ~HasLedgerRow(procs[1].refreshToken)
  /\ Blacklisted(procs[1].refreshToken)
  /\ base.running = 1
  /\ procs[1].resp.status = 200
  /\ IsAccessToken(procs[1].resp.accessToken)
  /\ \E r \in Rows(base.ledger) : r.token = procs[1].refreshToken

\* a token that has a blacklist row or has expired
Barred(t) == Blacklisted(t) \/ now >= t.exp

\* C32 -- blacklist rows are removed by the sweeper only and only once
\* expired: a step that is not a sweeper run removes no blacklist row, a
\* sweeper run, failed or not, removes no row of a token whose exp is still
\* in the future, and so a token with a blacklist row stays blacklisted or
\* expired and is neither admitted by authenticate nor accepted by refresh
\* in any later state.
C32_BlacklistUntilExpiry ==
  [][/\ \A r \in Rows(blacklist) :
          (last'.op # "sweep" \/ now' < r.token.exp)
            => (r \in Rows(blacklist') /\ blacklist'[r] >= blacklist[r])
     /\ \A t \in issued :
          Barred(t) => /\ Barred(t)'
                       /\ ~AuthNow(t)'.next
                       /\ RefreshNow(t)'.status # 200
    ]_vars

\* a sweeper run has removed the row of an expired token and has kept the
\* row of a token that still verifies, which authenticate turns away
C32_Witness ==
  /\ last.op = "sweep"
  /\ \E t \in revoked : IsAccessToken(t) /\ ~Blacklisted(t)
  /\ \E r \in Rows(blacklist) :
       /\ verifyAccessToken(r.token, now).err = "none"
       /\ AuthNow(r.token).code = "TOKEN_BLACKLISTED"

RejectedRefresh(resp) ==
  /\ resp.status = 401
  /\ resp.code \in {"TOKEN_BLACKLISTED", "INVALID_REFRESH_TOKEN"}
  /\ resp.accessToken = NoToken

\* C33 -- a successful logout of R's owner that names R leaves R without
\* ledger row, also when the blacklist write for R failed or was skipped;
\* from then on only a login that signs the same token value gives R a
\* ledger row again, and as long as R has none refresh answers
\* TOKEN_BLACKLISTED or INVALID_REFRESH_TOKEN to R and no refresh request
\* with R, whatever store call of it fails, yields an access token.
C33_DeletedStaysRejected ==
  [][\A t \in issued :
       (IsRefreshToken(t) /\ t \in revoked') =>
         /\ t \notin revoked => ~HasLedgerRow(t)'
         /\ (t \in revoked /\ ~HasLedgerRow(t) /\ HasLedgerRow(t)')
              => (last'.op = "login" /\ last'.resp.refreshToken = t)
         /\ ~HasLedgerRow(t)' => RejectedRefresh(RefreshNow(t)')
         /\ (last'.op = "refresh" /\ last'.refreshToken = t /\ ~HasLedgerRow(t))
              => /\ last'.resp.status # 200
                 /\ last'.resp.accessToken = NoToken
                 /\ last'.fault = "none" => RejectedRefresh(last'.resp)
    ]_vars

\* a refresh with a token that still verifies and was never blacklisted,
\* because the blacklist write of the logout failed: the row is gone and the
\* answer is INVALID_REFRESH_TOKEN
C33_Witness ==
  /\ last.op = "refresh"
  /\ last.fault = "none"
  /\ last.refreshToken \in revoked
  /\ verifyRefreshToken(last.refreshToken, now).err = "none"
  /\ ~Blacklisted(last.refreshToken)
  /\ ~HasLedgerRow(last.refreshToken)
  /\ last.resp.code = "INVALID_REFRESH_TOKEN"

\* the number of rows equal to r in table T
Copies(T, r) == IF r \in Rows(T) THEN T[r] ELSE 0

\* C34 -- the frame of logout: it removes no blacklist row and adds at most
\* one row of the presented access token and one row of the refresh token
\* of the body, the latter only when that token has a ledger row of the
\* caller and verifies; it adds no ledger row and deletes at most the rows
\* with that refresh token value, so the other refresh tokens of the user
\* keep their rows; and every other token that authenticate admitted before
\* the logout is admitted after it.
C34_LogoutFrame ==
  [][last'.op = "logout" =>
       LET A == last'.auth.token
           R == last'.refreshToken
       IN
       /\ \A r \in Rows(blacklist) \cup Rows(blacklist') :
            /\ Copies(blacklist', r) >= Copies(blacklist, r)
            /\ Copies(blacklist', r) <= Copies(blacklist, r) + 1
            /\ Copies(blacklist', r) > Copies(blacklist, r) =>
                 /\ last'.auth.next
                 /\ r.token \in {A, R}
                 /\ r.token # A =>
                      /\ OwnsLedgerRow(last'.auth.user.id, R)
                      /\ verifyRefreshToken(R, now).err = "none"
       /\ \A r \in Rows(ledger) \cup Rows(ledger') :
            /\ Copies(ledger', r) <= Copies(ledger, r)
            /\ r.token # R => Copies(ledger', r) = Copies(ledger, r)
       /\ \A t \in issued :
            (t # A /\ AuthNow(t).next) => AuthNow(t)'.next
    ]_vars

\* a logout that named a refresh token of the caller and removed its row,
\* while another session of the caller keeps its ledger row and an access
\* token minted for the caller after that refresh token is still admitted
C34_Witness ==
  /\ LogoutSucceeded
  /\ last.owned
  /\ ~HasLedgerRow(last.refreshToken)
  /\ Blacklisted(last.refreshToken)
  /\ \E r \in Rows(ledger) : r.userId = last.auth.user.id /\ r.token # last.refreshToken
  /\ \E t \in issued :
       /\ t # last.auth.token
       /\ t.userId = last.auth.user.id
       /\ t.iat > last.refreshToken.iat
       /\ AuthNow(t).next

\* the routes that run the authenticate middleware
Protected == {"authenticate", "logout", "getProfile", "updateProfile"}

\* C35 -- every execution of authenticate ends in exactly one of two ways:
\* it calls next() once and sends no response, with req.user the stored
\* record of the token's user less its password and req.token the token of
\* the header, or it sends one error response and does not call next().
C35_NextOrResponse ==
  last.op \in Protected =>
    /\ last.calls \in {<<"next">>, <<"res.json">>}
    /\ last.calls = <<"next">> =>
         /\ last.auth.next
         /\ last.auth.status = 0
         /\ last.auth.token = last.header[2]
         /\ \E u \in users : u.id = last.auth.token.userId
                             /\ last.auth.user = formatUser(u)
    /\ last.calls = <<"res.json">> =>
         /\ ~last.auth.next
         /\ last.auth.status \in {401, 500}
         /\ last.auth.user = NoReqUser
         /\ last.auth.token = NoToken

\* authenticate has let a logout through and has turned one away
C35_Witness ==
  /\ last.op = "authenticate"
  /\ last.calls = <<"res.json">>
  /\ last.auth.code = "TOKEN_BLACKLISTED"
  /\ \E t \in issued : AuthNow(t).next /\ authenticateCalls(Bearer(t), "none") = <<"next">>

\* C36 -- User.update writes exactly when its payload has an allowed key
\* with a defined value, null being a value that is written: then it runs
\* the UPDATE, which sets these keys and sets updatedAt to the current time
\* in the record with the given id; otherwise it runs no UPDATE and leaves
\* the table, updatedAt included, as it is.  Either way it returns the
\* record as it is then stored, and updateProfile answers 200 'Profile
\* updated successfully' with it, or 404 USER_NOT_FOUND when there is none.
C36_UpdatedAtBump ==
  [][(last'.op = "update" \/ (last'.op = "updateProfile" /\ last'.auth.next)) =>
       LET body == last'.body
           defined == {k \in DOMAIN body : k \in AllowedFields /\ body[k] # Undefined}
           direct == last'.op = "update"
           id == IF direct THEN last'.resp.user.id ELSE last'.auth.user.id
           before == IF last'.fault = "userGone" THEN {u \in users : u.id # id} ELSE users
       IN
       /\ direct => last'.calls = IF defined = {} THEN <<"SELECT">>
                                  ELSE <<"UPDATE", "SELECT">>
       /\ defined = {} => users' = before
       /\ defined # {} =>
            /\ Cardinality(users') = Cardinality(before)
            /\ \A u \in before : \E v \in users' :
                 /\ v.id = u.id
                 /\ u.id # id => v = u
                 /\ u.id = id =>
                      /\ v.updatedAt = DatetimeNow(now)
                      /\ \A k \in defined : v[k] = body[k]
                      /\ \A k \in AllowedFields \ defined : v[k] = u[k]
       /\ IF \E v \in users' : v.id = id
          THEN /\ last'.resp.status = 200
               /\ last'.resp.user = formatUser(CHOOSE v \in users' : v.id = id)
               /\ ~direct => last'.resp.message = "Profile updated successfully"
          ELSE IF direct THEN last'.resp = NoResponse
          ELSE /\ last'.resp.status = 404
               /\ last'.resp.code = "USER_NOT_FOUND"
    ]_vars

\* an update with the empty body was answered 'Profile updated successfully'
\* and left updatedAt as it was, after a direct call has written a null and
\* skipped an undefined value in another record, at a later time
C36_Witness ==
  /\ last.op = "updateProfile"
  /\ last.body = <<>>
  /\ last.resp.status = 200
  /\ last.resp.message = "Profile updated successfully"
  /\ now > 0
  /\ last.resp.user.updatedAt = DatetimeNow(0)
  /\ \E u \in users :
       /\ u.phoneNumber = Null
       /\ u.lastName = "Last"
       /\ u.updatedAt # DatetimeNow(0)

\* the rows the logins and logouts of the client can leave in the tables
LedgerRowsOfClient ==
  {[userId |-> "u1",
    token |-> Sign([userId |-> "u1", email |-> EmailOf("u1")], RefreshSecret, RefreshTTL, t),
    expiresAt |-> ToISOString(t + RefreshTTL)] : t \in 0..MaxTime}

BlacklistRowsOfClient ==
  {[token |-> Sign([userId |-> "u1", email |-> EmailOf("u1")], AccessSecret, AccessTTL, t),
    expiresAt |-> ToISOString(t + AccessTTL)] : t \in 0..MaxTime}

\* the firings of the timer that are still to come within the horizon on a
\* day after the given one
FiringsAfterDay(day) ==
  {k \in 0..MaxTime :
     LET at == sweeper.due + k * CleanupInterval IN
     at <= MaxTime /\ at \div SecondsPerDay > day}

\* the timer is set, and more firings on a later day than that of the row's
\* expiresAt are to come than the store has failures left
Collectable(r) ==
  /\ sweeper.up /\ sweeper.armed
  /\ Cardinality(FiringsAfterDay(r.expiresAt.date)) > MaxFailures - sweeper.failures

\* C37 -- garbage collection is live: while the timer keeps firing and once
\* the store has stopped failing, every ledger row and every blacklist row
\* is eventually deleted after its expiresAt has passed, at the latest by
\* the first cleanup run without failure on a later day than that of its
\* expiresAt, also when logins and logouts run between the firings.
C37_GarbageCollected ==
  /\ \A r \in LedgerRowsOfClient :
       (r \in Rows(ledger) /\ Collectable(r)) ~> (r \notin Rows(ledger))
  /\ \A r \in BlacklistRowsOfClient :
       (r \in Rows(blacklist) /\ Collectable(r)) ~> (r \notin Rows(blacklist))

\* a cleanup run, after the failed ones, has emptied both tables of the
\* rows that a login and a logout had left in them
C37_Witness ==
  /\ last.op = "sweep"
  /\ last.resp.status = 200
  /\ sweeper.failures = MaxFailures
  /\ ledger = EmptyBag
  /\ blacklist = EmptyBag
  /\ \E t \in issued : IsRefreshToken(t) /\ now >= t.exp
  /\ \E t \in revoked : IsAccessToken(t) /\ now >= t.exp

\* C38 -- Token.cleanupExpiredTokens rejects when either of its deletions
\* fails and is not atomic across the tables: it deletes the expired
\* blacklist rows first and the expired ledger rows second, so that a
\* failure of the first deletion leaves both tables as they were and a
\* failure of the second leaves the blacklist swept and the ledger as it
\* was; without failure both tables are swept.
C38_SweepNotAtomic ==
  [][last'.op = "sweep" =>
       /\ last'.fault = "sweepBlacklist" =>
            /\ last'.resp.status = 500
            /\ blacklist' = blacklist
            /\ ledger' = ledger
       /\ last'.fault = "sweepLedger" =>
            /\ last'.resp.status = 500
            /\ blacklist' = DeleteExpired(blacklist, now)
            /\ ledger' = ledger
       /\ last'.fault = "none" =>
            /\ last'.resp.status = 200
            /\ blacklist' = DeleteExpired(blacklist, now)
            /\ ledger' = DeleteExpired(ledger, now)
    ]_vars

\* a run whose second deletion failed: the blacklist row of a revoked
\* access token is gone, a ledger row of an earlier day is still there
C38_Witness ==
  /\ last.op = "sweep"
  /\ last.fault = "sweepLedger"
  /\ last.resp.status = 500
  /\ \E t \in revoked : IsAccessToken(t) /\ ~Blacklisted(t)
  /\ \E r \in Rows(ledger) : r.expiresAt.date < DatetimeNow(now).date

====
